---------------------------- MODULE Spec2Model ----------------------------
(***************************************************************************)
(* A model of the reference aggregator (reference_mcp): the result cache   *)
(* with its identifier index (server.py, SimpleCache), the concurrent      *)
(* provider fanout (aggregator.py, fanout) and the deduplication, merge    *)
(* and ranking of references (aggregator.py, dedupe_rank; models.py,       *)
(* Reference.merge_with).                                                  *)
(*                                                                         *)
(* Text is a sequence of one-character strings, so that lower(), strip(),  *)
(* startswith(), split() and the similarity measures are computed on the   *)
(* characters as the code computes them.  An absent optional text is None, *)
(* an absent optional number is NoneInt.                                   *)
(***************************************************************************)
EXTENDS Integers, Sequences, FiniteSets, Bags, TLC

VARIABLES
    \* SimpleCache (server.py)
    cache,        \* _cache: key -> [data, expires_at], defined on the stored keys
    id_to_keys,   \* _id_to_keys: identifier -> set of cache keys
    now,          \* datetime.now(), in minutes
    lock,         \* _lock: "free" or "held"
    pc,           \* the caller of the cache: "idle", or "blocked" on the lock
    ret,          \* the outcome of the last cache call
    \* fanout (aggregator.py)
    fpc,          \* position of fanout: "init", "taskgroup", "returned", "raised",
                  \* "cancelled"
    tasks,        \* provider -> the task created for it
    done_order,   \* the providers in the order their tasks completed
    ftime,        \* seconds since fanout was called
    fresult,      \* the list fanout returned
    \* dedupe_rank (aggregator.py)
    dpc,          \* "input", "once", "twice"
    refs_in,      \* the list passed to dedupe_rank
    m1, m2,       \* max_results of the first and of the second application
    out1, out2,   \* the results of the first and of the second application
    \* _are_duplicates and Reference.merge_with on a pair of references
    ppc,          \* "input", "compared", "merged"
    pair1, pair2,   \* the pair
    dup,          \* what _are_duplicates(ref1, ref2) returned
    merged,       \* pair1 after ref1.merge_with(ref2)
    \* AbstractProvider.cached_search (providers/base.py), one provider instance
    pcache,       \* _cache: cache key -> result list
    pcache_expiry,\* _cache_expiry: cache key -> expiry
    pcache_order, \* the keys of _cache_expiry in the order the dict holds them
    pnow,         \* datetime.now(), in minutes
    pending,      \* the bag of the calls that wait for search
    stored_by,    \* arguments -> the start of the latest call with them that
                  \* stored a list
    pret,         \* the outcome of the call that ended in the last step, if any
    \* the tools search and fetch (server.py)
    tool,         \* "idle", "search_reference" (search waits for the aggregation),
                  \* "fetch_reference" (fetch waits for it), "blocked"
    tool_arg,     \* the arguments of the tool call that waits
    tool_ret,     \* the outcome of the tool call that ended in the last step, if any
    origin        \* cache key -> the query and count whose aggregation made the entry

cacheVars  == <<cache, id_to_keys, now, lock, pc, ret>>
fanoutVars == <<fpc, tasks, done_order, ftime, fresult>>
dedupeVars == <<dpc, refs_in, m1, m2, out1, out2>>
pairVars   == <<ppc, pair1, pair2, dup, merged>>
providerVars == <<pcache, pcache_expiry, pcache_order, pnow, pending, stored_by, pret>>
serverVars == <<tool, tool_arg, tool_ret, origin>>
otherVars  == <<pairVars, providerVars, serverVars>>
vars == <<cache, id_to_keys, now, lock, pc, ret,
          fpc, tasks, done_order, ftime, fresult,
          dpc, refs_in, m1, m2, out1, out2,
          ppc, pair1, pair2, dup, merged,
          pcache, pcache_expiry, pcache_order, pnow, pending, stored_by, pret,
          tool, tool_arg, tool_ret, origin>>

---------------------------------------------------------------------------
(* Python values *)

\* None for an optional text field (not a text: its one element is no character).
None == <<"None">>

\* None for an optional number (year, citation_count, relevance_score).
NoneInt == -1

\* Python truthiness of an optional text: None and "" are falsy.
Truthy(s) == s # None /\ s # <<>>

\* Python truthiness of an optional number: None and 0 are falsy.
TruthyInt(n) == n # NoneInt /\ n # 0

\* The characters of the model, in code point order.
Alphabet == <<" ", ".", "/", "0", "1", "2", ":", "A", "D", "I", "O", "X",
              "a", "b", "c", "d", "e", "f", "g", "h", "i", "j", "k", "m",
              "o", "p", "r", "s", "t", "v", "x">>

Ord(c) == CHOOSE i \in 1..Len(Alphabet) : Alphabet[i] = c

\* str.lower() on one character.
LowerChar(c) ==
    CASE c = "A" -> "a" [] c = "D" -> "d" [] c = "I" -> "i"
      [] c = "O" -> "o" [] c = "X" -> "x" [] OTHER -> c

\* str.lower()
Lower(s) == [i \in 1..Len(s) |-> LowerChar(s[i])]

\* s[n:] for n >= 0
DropFirst(s, n) == IF n >= Len(s) THEN <<>> ELSE SubSeq(s, n + 1, Len(s))

\* str.startswith(prefix)
StartsWith(s, prefix) ==
    Len(s) >= Len(prefix) /\ SubSeq(s, 1, Len(prefix)) = prefix

RECURSIVE LStrip(_)
LStrip(s) == IF s # <<>> /\ Head(s) = " " THEN LStrip(Tail(s)) ELSE s

RECURSIVE RStrip(_)
RStrip(s) ==
    IF s # <<>> /\ s[Len(s)] = " " THEN RStrip(SubSeq(s, 1, Len(s) - 1)) ELSE s

\* str.strip()
Strip(s) == RStrip(LStrip(s))

\* s1 < s2 in Python's ordering of strings (lexicographic by code point).
RECURSIVE StrLess(_, _)
StrLess(s1, s2) ==
    IF s2 = <<>> THEN FALSE
    ELSE IF s1 = <<>> THEN TRUE
    ELSE IF Head(s1) # Head(s2) THEN Ord(Head(s1)) < Ord(Head(s2))
    ELSE StrLess(Tail(s1), Tail(s2))

---------------------------------------------------------------------------
(* References (models.py) *)

\* ProviderMeta
Meta(name, relevance_score) ==
    [name |-> name, relevance_score |-> relevance_score, url |-> None]

\* A score is the fraction n/d in lowest terms; 0.0 is <<0, 1>>.
ZeroScore == <<0, 1>>

\* Reference, with the defaults of its optional fields filled in by the caller.
Reference(title, authors, year, doi, arxiv_id, s2_paper_id, dblp_key, abstract, citation_count, sources, score) ==
    [title |-> title, authors |-> authors, year |-> year,
     doi |-> doi, arxiv_id |-> arxiv_id, s2_paper_id |-> s2_paper_id,
     dblp_key |-> dblp_key, venue |-> None, volume |-> None, issue |-> None,
     pages |-> None, publisher |-> None, abstract |-> abstract,
     bibtex |-> <<"@">> \o title, citation_count |-> citation_count,
     sources |-> sources, score |-> score]

\* The references the inputs are drawn from.
DoiX      == <<"1", "0", ".", "x">>
DoiXTagged == <<"d", "o", "i", ":", "1", "0", ".", "X">>
Arxiv1    == <<"1">>
Arxiv1v2  == <<"1", "v", "2">>
AuthorJK  == <<"j", " ", "k">>
AuthorJM  == <<"j", " ", "m">>

RefA == Reference(<<"a", " ", "b">>, <<AuthorJK>>, 2017, DoiX, None, None, None,
                  None, 3, <<Meta("dblp", 50)>>, ZeroScore)
RefB == Reference(<<"c", " ", "d">>, <<AuthorJK>>, 2017, None, Arxiv1v2, None, None,
                  <<"a", "b">>, NoneInt, <<Meta("arxiv", 80)>>, ZeroScore)
RefC == Reference(<<"e", " ", "f">>, <<AuthorJK>>, 2017, DoiXTagged, Arxiv1, None, None,
                  <<"a">>, 0, <<Meta("semantic_scholar", NoneInt)>>, ZeroScore)
RefD == Reference(<<"A", " ", "b">>, <<>>, NoneInt, None, None, None, None,
                  None, NoneInt, <<Meta("openalex", NoneInt)>>, ZeroScore)
RefE == Reference(<<"a", " ", "b">>, <<AuthorJM>>, 2017, None, None, None, None,
                  None, 5, <<Meta("dblp", 80)>>, ZeroScore)

RefPool == {RefA, RefB, RefC, RefD, RefE}

\* Further references for the comparison and the merge of a pair: a DOI given
\* as a URL, DOIs with white space, a year of 0, a score set by the caller.
DoiXUrl   == <<"h", "t", "t", "p", "s", ":", "/", "/", "d", "o", "i", ".", "o", "r", "g", "/",
               "1", "0", ".", "X">>
DoiXSpace == <<" ", "1", "0", ".", "x">>
DoiXTaggedSpace == <<"d", "o", "i", ":", " ", "1", "0", ".", "x">>

RefF == Reference(<<"g", " ", "h">>, <<AuthorJM>>, 2019, DoiXUrl, None, None, None,
                  None, NoneInt, <<Meta("openalex", NoneInt)>>, <<7, 1>>)
RefG == Reference(<<"i", " ", "j">>, <<>>, 0, DoiXSpace, None, None, None,
                  None, NoneInt, <<Meta("dblp", NoneInt)>>, ZeroScore)
RefH == Reference(<<"k", " ", "m">>, <<>>, NoneInt, DoiXTaggedSpace, None, None, None,
                  None, NoneInt, <<Meta("arxiv", NoneInt)>>, ZeroScore)

\* A reference with the title of RefG and another year, without identifiers.
RefI == Reference(<<"i", " ", "j">>, <<>>, 2019, None, None, None, None,
                  None, NoneInt, <<Meta("crossref", NoneInt)>>, ZeroScore)

\* References whose arXiv IDs carry the prefix "arXiv:".
ArxivTagged1 == <<"a", "r", "X", "i", "v", ":", "1">>
ArxivTagged2 == <<"a", "r", "X", "i", "v", ":", "2">>

RefJ == Reference(<<"o", " ", "p">>, <<AuthorJK>>, 2020, None, ArxivTagged1, None, None,
                  None, NoneInt, <<Meta("arxiv", 10)>>, ZeroScore)
RefK == Reference(<<"r", " ", "s">>, <<AuthorJM>>, 2021, None, ArxivTagged2, None, None,
                  None, NoneInt, <<Meta("arxiv", 20)>>, ZeroScore)

\* References with a paper ID and a bibliographic key; RefL has the empty
\* text as its DOI, RefM is the merge of two sources.
PaperId1 == <<"p", "1">>
DblpKey1 == <<"k", "1">>

RefL == Reference(<<"s", " ", "t">>, <<>>, NoneInt, <<>>, None, PaperId1, None,
                  None, NoneInt, <<Meta("semantic_scholar", 30)>>, ZeroScore)
RefM == Reference(<<"t", " ", "v">>, <<AuthorJK>>, 2018, DoiXTagged, Arxiv1v2, PaperId1, DblpKey1,
                  None, 2, <<Meta("dblp", 30), Meta("arxiv", NoneInt)>>, ZeroScore)

PairPool == RefPool \cup {RefF, RefG, RefH, RefI, RefJ, RefK, RefL, RefM}

\* A reference with the title, first author and year of RefA and another DOI.
DoiY == <<"1", "0", ".", "2">>
RefO == [Reference(<<"a", " ", "b">>, <<AuthorJK>>, 2017, DoiY, None, None, None,
                  None, NoneInt, <<Meta("crossref", NoneInt)>>, ZeroScore)
            EXCEPT !.venue = <<"v">>, !.volume = <<"1">>, !.issue = <<"2">>,
                   !.pages = <<"3">>, !.publisher = <<"p">>]

\* A reference whose only identifier is its bibliographic key.
RefN == Reference(<<"x">>, <<>>, NoneInt, None, None, None, DblpKey1,
                  None, NoneInt, <<Meta("dblp", NoneInt)>>, ZeroScore)

---------------------------------------------------------------------------
(* SimpleCache (server.py) *)

\* ttl_minutes of the global search_cache.
TTL == 10

\* The sweep of _clean_expired_if_needed is due every SweepEvery entries.
SweepEvery == 100

\* The time a behaviour may reach, and the steps the clock takes.
MaxTime == 20
TickSteps == {TTL}

\* The cache keys of search: f"search:{query_hash}:{top_k}".
SearchKey(query_hash, top_k) == <<"search", query_hash, top_k>>
Keys == {SearchKey(1, 1), SearchKey(2, 1)}

\* key.startswith("search:") and isinstance(value, list)
IsSearchKey(key) == key[1] = "search"

\* The payloads stored: lists of references (as search stores them).
CacheRefs == {RefC, RefD}
Payloads == {<<>>, <<RefC>>, <<RefD>>, <<RefC, RefD>>}

\* hashlib.md5(title.encode()).hexdigest()[:16], prefixed: one text per title.
TitleHash(title) == <<"title_hash_">> \o title

\* _get_ref_id with the arXiv ID taken before the DOI.
get_ref_id_arxiv_first(ref) ==
    LET base_id == IF Truthy(ref.arxiv_id) THEN ref.arxiv_id
                   ELSE IF Truthy(ref.doi) THEN ref.doi
                   ELSE IF Truthy(ref.s2_paper_id) THEN ref.s2_paper_id
                   ELSE ref.dblp_key
    IN  IF Truthy(base_id) THEN base_id ELSE TitleHash(ref.title)

\* SimpleCache._get_ref_id
get_ref_id(ref) ==
    LET base_id == IF Truthy(ref.doi) THEN ref.doi
                   ELSE IF Truthy(ref.arxiv_id) THEN ref.arxiv_id
                   ELSE IF Truthy(ref.s2_paper_id) THEN ref.s2_paper_id
                   ELSE ref.dblp_key
    IN  IF Truthy(base_id) THEN base_id ELSE TitleHash(ref.title)

\* The store is the pair of maps the lock guards.
Store(c, idx) == [cache |-> c, id_to_keys |-> idx]

\* f with x removed from its domain
Without(f, x) == [y \in DOMAIN f \ {x} |-> f[y]]

\* xs without the elements equal to x
Remove(xs, x) == SelectSeq(xs, LAMBDA y : y # x)

\* f with f[x] = v, x added to its domain when new
With(f, x, v) == [y \in DOMAIN f \cup {x} |-> IF y = x THEN v ELSE f[y]]

\* The loop of set over value: add key to the set of each record's identifier.
RECURSIVE index_refs(_, _, _)
index_refs(idx, key, value) ==
    IF value = <<>> THEN idx
    ELSE LET ref_id == get_ref_id(Head(value))
             old    == IF ref_id \in DOMAIN idx THEN idx[ref_id] ELSE {}
         IN  index_refs(With(idx, ref_id, old \cup {key}), key, Tail(value))

\* SimpleCache.set, inside the lock
set_store(st, key, value, expires_at) ==
    Store(With(st.cache, key, [data |-> value, expires_at |-> expires_at]),
          IF IsSearchKey(key) THEN index_refs(st.id_to_keys, key, value)
          ELSE st.id_to_keys)

\* discard_key with the set deleted whether or not other keys are left in it.
discard_key_drop_set(idx, ref_id, key) ==
    IF ref_id \in DOMAIN idx THEN Without(idx, ref_id) ELSE idx

\* One step of the loop of _remove_entry: discard key from ref_id's set and
\* delete the set when it is left empty.
discard_key(idx, ref_id, key) ==
    IF ref_id \in DOMAIN idx
    THEN IF idx[ref_id] \ {key} = {} THEN Without(idx, ref_id)
         ELSE [idx EXCEPT ![ref_id] = @ \ {key}]
    ELSE idx

RECURSIVE unindex_refs(_, _, _)
unindex_refs(idx, key, data) ==
    IF data = <<>> THEN idx
    ELSE unindex_refs(discard_key(idx, get_ref_id(Head(data)), key), key, Tail(data))

\* SimpleCache._remove_entry
remove_entry(st, key) ==
    IF key \in DOMAIN st.cache
    THEN Store(Without(st.cache, key),
               IF IsSearchKey(key)
               THEN unindex_refs(st.id_to_keys, key, st.cache[key].data)
               ELSE st.id_to_keys)
    ELSE st

\* Expired with the expiry time itself not yet counted as expired.
Expired_after(entry, t) == entry.expires_at < t

\* Fresh with the expiry time itself still counted as fresh.
Fresh_inclusive(entry, t) == t <= entry.expires_at

\* datetime.now() < entry.expires_at
Fresh(entry, t) == t < entry.expires_at

\* v.expires_at <= now
Expired(entry, t) == entry.expires_at <= t

RECURSIVE remove_all(_, _)
remove_all(st, keys) ==
    IF keys = {} THEN st
    ELSE LET k == CHOOSE x \in keys : TRUE
         IN  remove_all(remove_entry(st, k), keys \ {k})

\* SimpleCache.clear_expired, inside the lock
clear_expired_store(st, t) ==
    remove_all(st, {k \in DOMAIN st.cache : Expired(st.cache[k], t)})

\* The condition of _clean_expired_if_needed.
SweepDue(c) ==
    /\ Cardinality(DOMAIN c) > SweepEvery
    /\ Cardinality(DOMAIN c) % SweepEvery = 0

\* The first record of data whose identifier is doc_id (there is one).
RECURSIVE first_match(_, _)
first_match(data, doc_id) ==
    IF get_ref_id(Head(data)) = doc_id THEN Head(data)
    ELSE first_match(Tail(data), doc_id)

HasMatch(data, doc_id) == \E i \in 1..Len(data) : get_ref_id(data[i]) = doc_id

\* The set object self._id_to_keys[doc_id] that get_by_id iterates, as the index
\* holds it (empty once the index has dropped it).
Candidates(idx, doc_id) == IF doc_id \in DOMAIN idx THEN idx[doc_id] ELSE {}

\* The loop of get_by_id over the candidate keys, taken in the order `order`
\* (a Python set iterates in an arbitrary order).  _remove_entry discards from
\* the very set being iterated; the iterator then raises RuntimeError ("Set
\* changed size during iteration") when it is asked for the next key.
RECURSIVE get_by_id_loop(_, _, _, _, _)
get_by_id_loop(st, order, i, doc_id, t) ==
    IF i > Len(order)
    THEN [st |-> st, kind |-> "none", value |-> <<>>]
    ELSE LET cache_key == order[i] IN
         IF cache_key \notin DOMAIN st.cache
         THEN get_by_id_loop(st, order, i + 1, doc_id, t)
         ELSE LET entry == st.cache[cache_key] IN
              IF Fresh(entry, t)
              THEN IF HasMatch(entry.data, doc_id)
                   THEN [st |-> st, kind |-> "value",
                         value |-> <<cache_key, first_match(entry.data, doc_id)>>]
                   ELSE get_by_id_loop(st, order, i + 1, doc_id, t)
              ELSE LET st2 == remove_entry(st, cache_key) IN
                   IF Candidates(st2.id_to_keys, doc_id)
                        # Candidates(st.id_to_keys, doc_id)
                   THEN [st |-> st2, kind |-> "raise", value |-> <<>>]
                   ELSE get_by_id_loop(st2, order, i + 1, doc_id, t)

\* The orders in which a set can be iterated.
Orders(S) ==
    {o \in [1..Cardinality(S) -> S] : \A i, j \in 1..Cardinality(S) : i # j => o[i] # o[j]}

\* The outcome of a cache call.
Outcome(op, arg, kind, value) ==
    [op |-> op, arg |-> arg, kind |-> kind, value |-> value]

\* SimpleCache.set
set(key, value) ==
    /\ pc = "idle" /\ lock = "free"
    /\ LET st == set_store(Store(cache, id_to_keys), key, value, now + TTL)
       IN  /\ cache' = st.cache
           /\ id_to_keys' = st.id_to_keys
    /\ ret' = Outcome("set", key, "none", <<>>)
    /\ UNCHANGED <<now, lock, pc>>

\* SimpleCache.get.  The lock is a threading.Lock, which is not reentrant: when
\* the sweep is due, clear_expired asks for the lock that get holds, and the
\* caller waits for it with the lock held.
get(key) ==
    /\ pc = "idle" /\ lock = "free"
    /\ IF SweepDue(cache)
       THEN /\ lock' = "held" /\ pc' = "blocked"
            /\ UNCHANGED <<cache, id_to_keys, ret>>
       ELSE /\ UNCHANGED <<lock, pc>>
            /\ IF key \in DOMAIN cache
               THEN IF Fresh(cache[key], now)
                    THEN /\ ret' = Outcome("get", key, "value", cache[key].data)
                         /\ UNCHANGED <<cache, id_to_keys>>
                    ELSE LET st == remove_entry(Store(cache, id_to_keys), key)
                         IN  /\ cache' = st.cache
                             /\ id_to_keys' = st.id_to_keys
                             /\ ret' = Outcome("get", key, "none", <<>>)
               ELSE /\ ret' = Outcome("get", key, "none", <<>>)
                    /\ UNCHANGED <<cache, id_to_keys>>
    /\ UNCHANGED now

\* SimpleCache.get_by_id
get_by_id(doc_id) ==
    /\ pc = "idle" /\ lock = "free"
    /\ \E order \in Orders(Candidates(id_to_keys, doc_id)) :
          LET r == get_by_id_loop(Store(cache, id_to_keys), order, 1, doc_id, now)
          IN  /\ cache' = r.st.cache
              /\ id_to_keys' = r.st.id_to_keys
              /\ ret' = Outcome("get_by_id", doc_id, r.kind, r.value)
    /\ UNCHANGED <<now, lock, pc>>

\* SimpleCache.clear_expired
clear_expired ==
    /\ pc = "idle" /\ lock = "free"
    /\ LET st == clear_expired_store(Store(cache, id_to_keys), now)
       IN  /\ cache' = st.cache
           /\ id_to_keys' = st.id_to_keys
    /\ ret' = Outcome("clear_expired", <<>>, "none", <<>>)
    /\ UNCHANGED <<now, lock, pc>>

\* Time passes between calls.
Tick ==
    /\ \E d \in TickSteps : now + d <= MaxTime /\ now' = now + d
    /\ UNCHANGED <<cache, id_to_keys, lock, pc, ret>>

\* The identifiers a caller may ask get_by_id for: every identifier field and
\* the title hash of the references.
DocIds ==
    UNION {{get_ref_id(r), TitleHash(r.title)} \cup
           ({r.doi, r.arxiv_id, r.s2_paper_id, r.dblp_key} \ {None}) : r \in CacheRefs}

CacheInit ==
    /\ cache = <<>>
    /\ id_to_keys = <<>>
    /\ now = 0
    /\ lock = "free"
    /\ pc = "idle"
    /\ ret = Outcome("none", <<>>, "none", <<>>)

FanoutIdle ==
    /\ fpc = "init"
    /\ tasks = <<>>
    /\ done_order = <<>>
    /\ ftime = 0
    /\ fresult = <<>>

DedupeIdle ==
    /\ dpc = "input"
    /\ refs_in = <<>>
    /\ m1 = 0
    /\ m2 = 0
    /\ out1 = <<>>
    /\ out2 = <<>>

PairIdle ==
    /\ ppc = "input"
    /\ pair1 = <<>>
    /\ pair2 = <<>>
    /\ dup = FALSE
    /\ merged = <<>>

\* A call of cached_search that ended: how ("none", "return", "raise",
\* "cancelled"), its
\* arguments, the time it began, whether a call with the same arguments that
\* began less than the TTL before had stored a list, whether it called
\* search, and the list it returned.
ProviderOutcome(kind, args, start, recent, invoked, results) ==
    [kind |-> kind, args |-> args, start |-> start, recent |-> recent,
     invoked |-> invoked, results |-> results]

NoProviderOutcome == ProviderOutcome("none", <<>>, 0, FALSE, FALSE, <<>>)

ProviderIdle ==
    /\ pcache = <<>>
    /\ pcache_expiry = <<>>
    /\ pcache_order = <<>>
    /\ pnow = 0
    /\ pending = EmptyBag
    /\ stored_by = <<>>
    /\ pret = NoProviderOutcome

\* A tool call that ended: the tool, its argument, how it ended ("value",
\* "none", "raise"), what it returned, and whether it ran search_reference.
ToolOutcome(op, arg, kind, value, searched) ==
    [op |-> op, arg |-> arg, kind |-> kind, value |-> value, searched |-> searched]

NoToolOutcome == ToolOutcome("none", <<>>, "none", <<>>, FALSE)

ServerIdle ==
    /\ tool = "idle"
    /\ tool_arg = <<>>
    /\ tool_ret = NoToolOutcome
    /\ origin = <<>>

Init == CacheInit /\ FanoutIdle /\ DedupeIdle /\ PairIdle /\ ProviderIdle /\ ServerIdle

CacheSet ==
    /\ \E key \in Keys, value \in Payloads : set(key, value)
    /\ UNCHANGED <<fanoutVars, dedupeVars, otherVars>>

CacheGet ==
    /\ \E key \in Keys : get(key)
    /\ UNCHANGED <<fanoutVars, dedupeVars, otherVars>>

CacheGetById ==
    /\ \E doc_id \in DocIds : get_by_id(doc_id)
    /\ UNCHANGED <<fanoutVars, dedupeVars, otherVars>>

CacheClearExpired ==
    /\ clear_expired
    /\ UNCHANGED <<fanoutVars, dedupeVars, otherVars>>

CacheTick ==
    /\ Tick
    /\ UNCHANGED <<fanoutVars, dedupeVars, otherVars>>

Next ==
    \/ CacheSet
    \/ CacheGet
    \/ CacheGetById
    \/ CacheClearExpired
    \/ CacheTick

Spec == Init /\ [][Next]_vars

---------------------------------------------------------------------------
(* fanout (aggregator.py) *)

\* The providers passed to fanout, in the order passed (registry.py).
Providers == <<"dblp", "semantic_scholar", "arxiv">>
ProviderSet == {Providers[i] : i \in 1..Len(Providers)}

\* AbstractProvider.TIMEOUT and its overrides, in seconds.
BaseTimeout == 4
ArxivTimeout == 5
TIMEOUT(p) == IF p = "arxiv" THEN ArxivTimeout ELSE BaseTimeout

\* The time a fanout behaviour may reach.
MaxFTime == 6

\* The lists a provider's cached_search may return.
SearchResults(p) ==
    CASE p = "dblp" -> {<<RefA, RefE>>, <<RefE>>}
      [] p = "semantic_scholar" -> {<<RefC>>, <<>>}
      [] OTHER -> {<<RefB>>}

\* A task of the TaskGroup.  calls counts the calls of the provider's
\* cached_search, outcome is how the call ended ("ok", "error", "timeout"),
\* returned what it returned, result what search_with_timeout made of it, and
\* cached holds the list the provider keeps in its _cache for the query, if any.
NewTask ==
    [status |-> "created", deadline |-> 0, calls |-> 0, outcome |-> "none",
     returned |-> <<>>, result |-> [kind |-> "none", value |-> <<>>],
     cached |-> <<>>]

\* search_with_timeout calling the provider again after a failure or a timeout.
search_with_timeout_retry(outcome, value) ==
    IF outcome = "ok" THEN [kind |-> "return", value |-> value]
    ELSE [kind |-> "retry", value |-> <<>>]

\* search_with_timeout with the provider's error raised again.
search_with_timeout_reraise(outcome, value) ==
    IF outcome = "ok" THEN [kind |-> "return", value |-> value]
    ELSE IF outcome = "timeout" THEN [kind |-> "return", value |-> <<>>]
    ELSE [kind |-> "raise", value |-> <<>>]

\* fanout.search_with_timeout: the try/except around wait_for.
search_with_timeout(outcome, value) ==
    IF outcome = "ok" THEN [kind |-> "return", value |-> value]
    ELSE IF outcome = "timeout" THEN [kind |-> "return", value |-> <<>>]
    ELSE [kind |-> "return", value |-> <<>>]

RECURSIVE SumTimeouts(_)
SumTimeouts(order) ==
    IF order = <<>> THEN 0 ELSE TIMEOUT(Head(order)) + SumTimeouts(Tail(order))

\* The timeouts running one after the other: the deadline of a call is the sum
\* of the timeouts of the providers up to it.
Deadline_sequential(p, t) ==
    LET i == CHOOSE j \in 1..Len(Providers) : Providers[j] = p
    IN  t + SumTimeouts(SubSeq(Providers, 1, i))

\* wait_for(..., timeout=provider.TIMEOUT) entered at time t
Deadline(p, t) == t + TIMEOUT(p)

\* The largest TIMEOUT among the providers.
MaxTimeout == CHOOSE t \in {TIMEOUT(p) : p \in ProviderSet} :
                  \A p \in ProviderSet : TIMEOUT(p) <= t

\* The cancellation that also drops what the completed calls stored.
cancel_tasks_drop_completed(ts) ==
    [p \in DOMAIN ts |-> [ts[p] EXCEPT !.status = IF @ = "done" THEN @ ELSE "cancelled",
                                        !.cached = <<>>]]

\* The TaskGroup cancels the tasks that are not done; a task that is done
\* keeps its result, and its provider keeps what cached_search stored.
cancel_tasks(ts) ==
    [p \in DOMAIN ts |-> [ts[p] EXCEPT !.status = IF @ = "done" THEN @ ELSE "cancelled"]]

\* The TaskGroup left as soon as one task is done.
TaskGroupDone_any(ts) == \E p \in DOMAIN ts : ts[p].status = "done"

\* async with asyncio.TaskGroup(): the block is left when every task is done.
TaskGroupDone(ts) == \A p \in DOMAIN ts : ts[p].status = "done"

RECURSIVE ConcatResults(_, _)
ConcatResults(ts, order) ==
    IF order = <<>> THEN <<>>
    ELSE (IF Head(order) \in DOMAIN ts /\ ts[Head(order)].status = "done"
          THEN ts[Head(order)].result.value ELSE <<>>)
         \o ConcatResults(ts, Tail(order))

\* The results taken in the order the tasks completed.
Flatten_completion_order(ts) == ConcatResults(ts, done_order)

\* for task in tasks: results.extend(task.result())
Flatten(ts) == ConcatResults(ts, Providers)

\* tasks = [tg.create_task(search_with_timeout(p)) for p in providers]
FanoutCall ==
    /\ fpc = "init"
    /\ tasks' = [p \in ProviderSet |-> NewTask]
    /\ fpc' = "taskgroup"
    /\ UNCHANGED <<done_order, ftime, fresult, cacheVars, dedupeVars, otherVars>>

\* The event loop starts a task: wait_for(cached_search(...), timeout=TIMEOUT).
TaskStart ==
    /\ fpc = "taskgroup"
    /\ \E p \in DOMAIN tasks :
          /\ tasks[p].status = "created"
          /\ tasks' = [tasks EXCEPT ![p].status = "running",
                                    ![p].calls = @ + 1,
                                    ![p].deadline = Deadline(p, ftime)]
    /\ UNCHANGED <<fpc, done_order, ftime, fresult, cacheVars, dedupeVars, otherVars>>

\* The call of cached_search ends: a list it returned is in the provider's
\* _cache (base.py, lines 62-63), and the task is done with what
\* search_with_timeout returns, unless search_with_timeout calls again.
Finish(p, outcome, value) ==
    LET result == search_with_timeout(outcome, value)
        again == result.kind = "retry"
    IN  /\ tasks' = [tasks EXCEPT ![p].status = IF again THEN "created" ELSE "done",
                                  ![p].outcome = outcome,
                                  ![p].returned = value,
                                  ![p].result = result,
                                  ![p].cached = IF outcome = "ok" THEN <<value>> ELSE @]
        /\ done_order' = IF again THEN done_order ELSE Append(done_order, p)

\* cached_search returns before the timeout.
SearchReturns ==
    /\ fpc = "taskgroup"
    /\ \E p \in DOMAIN tasks :
          /\ tasks[p].status = "running"
          /\ ftime <= tasks[p].deadline
          /\ \E value \in SearchResults(p) : Finish(p, "ok", value)
    /\ UNCHANGED <<fpc, ftime, fresult, cacheVars, dedupeVars, otherVars>>

\* cached_search raises an error before the timeout.
SearchRaises ==
    /\ fpc = "taskgroup"
    /\ \E p \in DOMAIN tasks :
          /\ tasks[p].status = "running"
          /\ ftime <= tasks[p].deadline
          /\ Finish(p, "error", <<>>)
    /\ UNCHANGED <<fpc, ftime, fresult, cacheVars, dedupeVars, otherVars>>

\* wait_for cancels cached_search at the timeout and raises TimeoutError.
SearchTimesOut ==
    /\ fpc = "taskgroup"
    /\ \E p \in DOMAIN tasks :
          /\ tasks[p].status = "running"
          /\ ftime >= tasks[p].deadline
          /\ Finish(p, "timeout", <<>>)
    /\ UNCHANGED <<fpc, ftime, fresult, cacheVars, dedupeVars, otherVars>>

\* The TaskGroup block is left and the results are flattened; a task that
\* raised makes the TaskGroup raise.
FanoutJoin ==
    /\ fpc = "taskgroup"
    /\ TaskGroupDone(tasks)
    /\ IF \E p \in DOMAIN tasks : tasks[p].status = "done" /\ tasks[p].result.kind = "raise"
       THEN fpc' = "raised" /\ fresult' = <<>>
       ELSE fpc' = "returned" /\ fresult' = Flatten(tasks)
    /\ UNCHANGED <<tasks, done_order, ftime, cacheVars, dedupeVars, otherVars>>

\* The caller cancels fanout while it waits in the TaskGroup: the tasks that
\* are not done are cancelled and fanout raises CancelledError.
FanoutCancel ==
    /\ fpc = "taskgroup"
    /\ tasks' = cancel_tasks(tasks)
    /\ fpc' = "cancelled"
    /\ fresult' = <<>>
    /\ UNCHANGED <<done_order, ftime, cacheVars, dedupeVars, otherVars>>

\* A second passes.  The event loop runs what is ready before it sleeps: time
\* passes only when every task has been started, a call is still running, and
\* no timeout is due.
FanoutTick ==
    /\ fpc = "taskgroup"
    /\ ftime < MaxFTime
    /\ \A p \in DOMAIN tasks : tasks[p].status # "created"
    /\ \E p \in DOMAIN tasks : tasks[p].status = "running"
    /\ \A p \in DOMAIN tasks :
          tasks[p].status = "running" => ftime < tasks[p].deadline
    /\ ftime' = ftime + 1
    /\ UNCHANGED <<fpc, tasks, done_order, fresult, cacheVars, dedupeVars, otherVars>>

NextFanout ==
    \/ FanoutCall
    \/ TaskStart
    \/ SearchReturns
    \/ SearchRaises
    \/ SearchTimesOut
    \/ FanoutJoin
    \/ FanoutCancel
    \/ FanoutTick

SpecFanout == Init /\ [][NextFanout]_vars

\* The event loop keeps running: a step that can be taken is taken.
SpecFanoutLive == Init /\ [][NextFanout]_vars /\ WF_vars(NextFanout)

---------------------------------------------------------------------------
(* String similarity (rapidfuzz.fuzz, as called by _are_duplicates) *)

\* str.split(): the maximal runs of characters other than whitespace.
RECURSIVE SplitFrom(_, _)
SplitFrom(s, word) ==
    IF s = <<>> THEN (IF word = <<>> THEN <<>> ELSE <<word>>)
    ELSE IF Head(s) = " "
         THEN (IF word = <<>> THEN <<>> ELSE <<word>>) \o SplitFrom(Tail(s), <<>>)
         ELSE SplitFrom(Tail(s), Append(word, Head(s)))

Split(s) == SplitFrom(s, <<>>)

\* The length of a longest common subsequence.
RECURSIVE LCS(_, _)
LCS(s1, s2) ==
    IF s1 = <<>> \/ s2 = <<>> THEN 0
    ELSE IF Head(s1) = Head(s2) THEN 1 + LCS(Tail(s1), Tail(s2))
    ELSE LET x == LCS(Tail(s1), s2)
             y == LCS(s1, Tail(s2))
         IN  IF x >= y THEN x ELSE y

\* The insertions and deletions that turn s1 into s2.
IndelDistance(s1, s2) == Len(s1) + Len(s2) - 2 * LCS(s1, s2)

\* 100 - 100 * dist / lensum >= threshold, in whole numbers.
NormAtLeast(dist, lensum, threshold) ==
    IF lensum = 0 THEN 100 >= threshold
    ELSE 100 * (lensum - dist) >= threshold * lensum

\* fuzz.ratio(s1, s2) >= threshold
RatioAtLeast(s1, s2, threshold) ==
    NormAtLeast(IndelDistance(s1, s2), Len(s1) + Len(s2), threshold)

\* sorted(tokens)
RECURSIVE Sorted(_)
Sorted(tokens) ==
    IF tokens = {} THEN <<>>
    ELSE LET least == CHOOSE x \in tokens : \A y \in tokens \ {x} : StrLess(x, y)
         IN  <<least>> \o Sorted(tokens \ {least})

\* " ".join(words)
RECURSIVE Join(_)
Join(words) ==
    IF words = <<>> THEN <<>>
    ELSE IF Len(words) = 1 THEN Head(words)
    ELSE Head(words) \o <<" ">> \o Join(Tail(words))

\* fuzz.token_set_ratio(s1, s2) >= threshold, for a threshold above 0
TokenSetRatioAtLeast(s1, s2, threshold) ==
    LET words_a == Split(s1)
        words_b == Split(s2)
        tokens_a == {words_a[i] : i \in 1..Len(words_a)}
        tokens_b == {words_b[i] : i \in 1..Len(words_b)}
        intersect == tokens_a \cap tokens_b
        diff_ab_joined == Join(Sorted(tokens_a \ tokens_b))
        diff_ba_joined == Join(Sorted(tokens_b \ tokens_a))
        ab_len == Len(diff_ab_joined)
        ba_len == Len(diff_ba_joined)
        sect_len == Len(Join(Sorted(intersect)))
        sep == IF sect_len # 0 THEN 1 ELSE 0
        sect_ab_len == sect_len + sep + ab_len
        sect_ba_len == sect_len + sep + ba_len
        result == NormAtLeast(IndelDistance(diff_ab_joined, diff_ba_joined),
                              sect_ab_len + sect_ba_len, threshold)
    IN  IF tokens_a = {} \/ tokens_b = {} THEN FALSE
        ELSE IF intersect # {} /\ (tokens_a \ tokens_b = {} \/ tokens_b \ tokens_a = {})
             THEN 100 >= threshold
        ELSE IF sect_len = 0 THEN result
        ELSE \/ result
             \/ NormAtLeast(sep + ab_len, sect_len + sect_ab_len, threshold)
             \/ NormAtLeast(sep + ba_len, sect_len + sect_ba_len, threshold)

---------------------------------------------------------------------------
(* Deduplication and ranking (aggregator.py, models.py) *)

HttpsPrefix == <<"h", "t", "t", "p", "s", ":", "/", "/", "d", "o", "i", ".", "o", "r", "g", "/">>
HttpPrefix  == <<"h", "t", "t", "p", ":", "/", "/", "d", "o", "i", ".", "o", "r", "g", "/">>
DoiPrefix   == <<"d", "o", "i", ":">>

\* _normalize_doi
normalize_doi(doi) ==
    IF ~Truthy(doi) THEN None
    ELSE LET d == Strip(Lower(doi))
         IN  IF StartsWith(d, HttpsPrefix) THEN DropFirst(d, 16)
             ELSE IF StartsWith(d, HttpPrefix) THEN DropFirst(d, 15)
             ELSE IF StartsWith(d, DoiPrefix) THEN DropFirst(d, 4)
             ELSE d

\* s.split("v")[0]: s up to its first "v"
RECURSIVE BeforeFirstV(_)
BeforeFirstV(s) ==
    IF s = <<>> \/ Head(s) = "v" THEN <<>>
    ELSE <<Head(s)>> \o BeforeFirstV(Tail(s))

\* _normalize_arxiv_id
normalize_arxiv_id(arxiv_id) ==
    IF ~Truthy(arxiv_id) THEN None
    ELSE LET a == Strip(arxiv_id)
         IN  IF \E i \in 1..Len(a) : a[i] = "v" THEN BeforeFirstV(a) ELSE a

\* _extract_first_author_lastname
extract_first_author_lastname(authors) ==
    IF authors = <<>> THEN <<>>
    ELSE LET parts == Split(Strip(authors[1]))
         IN  IF parts # <<>> THEN Lower(parts[Len(parts)]) ELSE <<>>

\* _are_duplicates with the years compared whenever the first record has one.
are_duplicates_year_of_first(ref1, ref2) ==
    IF /\ Truthy(ref1.doi) /\ Truthy(ref2.doi)
       /\ normalize_doi(ref1.doi) = normalize_doi(ref2.doi)
    THEN TRUE
    ELSE IF /\ Truthy(ref1.arxiv_id) /\ Truthy(ref2.arxiv_id)
            /\ normalize_arxiv_id(ref1.arxiv_id) = normalize_arxiv_id(ref2.arxiv_id)
    THEN TRUE
    ELSE IF /\ Truthy(ref1.s2_paper_id) /\ Truthy(ref2.s2_paper_id)
            /\ ref1.s2_paper_id = ref2.s2_paper_id
    THEN TRUE
    ELSE IF TokenSetRatioAtLeast(Lower(ref1.title), Lower(ref2.title), 94)
    THEN IF TruthyInt(ref1.year) /\ ref1.year # ref2.year
         THEN FALSE
         ELSE LET author1 == extract_first_author_lastname(ref1.authors)
                  author2 == extract_first_author_lastname(ref2.authors)
              IN  IF author1 # <<>> /\ author2 # <<>>
                  THEN RatioAtLeast(author1, author2, 80)
                  ELSE TokenSetRatioAtLeast(Lower(ref1.title), Lower(ref2.title), 98)
    ELSE FALSE

\* _are_duplicates with the last names compared whenever the first record
\* has one.
are_duplicates_author_of_first(ref1, ref2) ==
    IF /\ Truthy(ref1.doi) /\ Truthy(ref2.doi)
       /\ normalize_doi(ref1.doi) = normalize_doi(ref2.doi)
    THEN TRUE
    ELSE IF /\ Truthy(ref1.arxiv_id) /\ Truthy(ref2.arxiv_id)
            /\ normalize_arxiv_id(ref1.arxiv_id) = normalize_arxiv_id(ref2.arxiv_id)
    THEN TRUE
    ELSE IF /\ Truthy(ref1.s2_paper_id) /\ Truthy(ref2.s2_paper_id)
            /\ ref1.s2_paper_id = ref2.s2_paper_id
    THEN TRUE
    ELSE IF TokenSetRatioAtLeast(Lower(ref1.title), Lower(ref2.title), 94)
    THEN IF TruthyInt(ref1.year) /\ TruthyInt(ref2.year) /\ ref1.year # ref2.year
         THEN FALSE
         ELSE LET author1 == extract_first_author_lastname(ref1.authors)
                  author2 == extract_first_author_lastname(ref2.authors)
              IN  IF author1 # <<>>
                  THEN RatioAtLeast(author1, author2, 80)
                  ELSE TokenSetRatioAtLeast(Lower(ref1.title), Lower(ref2.title), 98)
    ELSE FALSE

\* _are_duplicates
are_duplicates(ref1, ref2) ==
    IF /\ Truthy(ref1.doi) /\ Truthy(ref2.doi)
       /\ normalize_doi(ref1.doi) = normalize_doi(ref2.doi)
    THEN TRUE
    ELSE IF /\ Truthy(ref1.arxiv_id) /\ Truthy(ref2.arxiv_id)
            /\ normalize_arxiv_id(ref1.arxiv_id) = normalize_arxiv_id(ref2.arxiv_id)
    THEN TRUE
    ELSE IF /\ Truthy(ref1.s2_paper_id) /\ Truthy(ref2.s2_paper_id)
            /\ ref1.s2_paper_id = ref2.s2_paper_id
    THEN TRUE
    ELSE IF TokenSetRatioAtLeast(Lower(ref1.title), Lower(ref2.title), 94)
    THEN IF TruthyInt(ref1.year) /\ TruthyInt(ref2.year) /\ ref1.year # ref2.year
         THEN FALSE
         ELSE LET author1 == extract_first_author_lastname(ref1.authors)
                  author2 == extract_first_author_lastname(ref2.authors)
              IN  IF author1 # <<>> /\ author2 # <<>>
                  THEN RatioAtLeast(author1, author2, 80)
                  ELSE TokenSetRatioAtLeast(Lower(ref1.title), Lower(ref2.title), 98)
    ELSE FALSE

RECURSIVE GCD(_, _)
GCD(a, b) == IF b = 0 THEN a ELSE GCD(b, a % b)

\* n / d as a score; d > 0.
Fraction(n, d) == LET g == GCD(n, d) IN IF g = 0 THEN <<0, 1>> ELSE <<n \div g, d \div g>>

\* [s.relevance_score for s in sources if s.relevance_score is not None]
RECURSIVE provider_scores(_)
provider_scores(sources) ==
    IF sources = <<>> THEN <<>>
    ELSE (IF Head(sources).relevance_score # NoneInt
          THEN <<Head(sources).relevance_score>> ELSE <<>>)
         \o provider_scores(Tail(sources))

RECURSIVE Sum(_)
Sum(xs) == IF xs = <<>> THEN 0 ELSE Head(xs) + Sum(Tail(xs))

\* The value of the other record taken whenever it has one.
PreferTheirs(mine, theirs) ==
    IF Truthy(theirs) THEN theirs ELSE mine

\* "if not mine and theirs: mine = theirs" for an optional text
PreferMine(mine, theirs) ==
    IF ~Truthy(mine) /\ Truthy(theirs) THEN theirs ELSE mine

\* The entries of ys appended unless xs has an entry of the same source name.
extend_unique(xs, ys) ==
    xs \o SelectSeq(ys, LAMBDA y : \A i \in DOMAIN xs : xs[i].name # y.name)

\* list.extend: xs after "xs.extend(ys)"
extend(xs, ys) == xs \o ys

\* merge_with with the venue filled in from the other record as the
\* identifiers are.
merge_with_fill_venue(self, other) ==
    LET sources == extend(self.sources, other.sources)
        scores  == provider_scores(sources)
    IN  [self EXCEPT
           !.doi = PreferMine(self.doi, other.doi),
           !.arxiv_id = PreferMine(self.arxiv_id, other.arxiv_id),
           !.s2_paper_id = PreferMine(self.s2_paper_id, other.s2_paper_id),
           !.dblp_key = PreferMine(self.dblp_key, other.dblp_key),
           !.venue = PreferMine(self.venue, other.venue),
           !.authors = IF self.authors = <<>> /\ other.authors # <<>>
                       THEN other.authors ELSE self.authors,
           !.abstract = IF Truthy(other.abstract)
                        THEN IF ~Truthy(self.abstract) THEN other.abstract
                             ELSE IF Len(other.abstract) > Len(self.abstract)
                                  THEN other.abstract ELSE self.abstract
                        ELSE self.abstract,
           !.citation_count =
                IF TruthyInt(other.citation_count)
                THEN IF ~TruthyInt(self.citation_count) THEN other.citation_count
                     ELSE IF other.citation_count > self.citation_count
                          THEN other.citation_count ELSE self.citation_count
                ELSE self.citation_count,
           !.sources = sources,
           !.score = IF scores # <<>> THEN Fraction(Sum(scores), Len(scores))
                     ELSE self.score]

\* Reference.merge_with: self after other was merged into it
merge_with(self, other) ==
    LET sources == extend(self.sources, other.sources)
        scores  == provider_scores(sources)
    IN  [self EXCEPT
           !.doi = PreferMine(self.doi, other.doi),
           !.arxiv_id = PreferMine(self.arxiv_id, other.arxiv_id),
           !.s2_paper_id = PreferMine(self.s2_paper_id, other.s2_paper_id),
           !.dblp_key = PreferMine(self.dblp_key, other.dblp_key),
           !.authors = IF self.authors = <<>> /\ other.authors # <<>>
                       THEN other.authors ELSE self.authors,
           !.abstract = IF Truthy(other.abstract)
                        THEN IF ~Truthy(self.abstract) THEN other.abstract
                             ELSE IF Len(other.abstract) > Len(self.abstract)
                                  THEN other.abstract ELSE self.abstract
                        ELSE self.abstract,
           !.citation_count =
                IF TruthyInt(other.citation_count)
                THEN IF ~TruthyInt(self.citation_count) THEN other.citation_count
                     ELSE IF other.citation_count > self.citation_count
                          THEN other.citation_count ELSE self.citation_count
                ELSE self.citation_count,
           !.sources = sources,
           !.score = IF scores # <<>> THEN Fraction(Sum(scores), Len(scores))
                     ELSE self.score]

\* The inner loop with a duplicate merged but not marked as processed.
RECURSIVE merge_duplicates_unmarked(_, _, _, _)
merge_duplicates_unmarked(references, j, current_ref, processed_indices) ==
    IF j > Len(references)
    THEN [current_ref |-> current_ref, processed_indices |-> processed_indices]
    ELSE IF j \notin processed_indices /\ are_duplicates(current_ref, references[j])
         THEN merge_duplicates_unmarked(references, j + 1,
                                        merge_with(current_ref, references[j]),
                                        processed_indices)
    ELSE merge_duplicates_unmarked(references, j + 1, current_ref, processed_indices)

\* The inner loop of dedupe_rank from index j on: the accumulator and the
\* processed indices after it.
RECURSIVE merge_duplicates(_, _, _, _)
merge_duplicates(references, j, current_ref, processed_indices) ==
    IF j > Len(references)
    THEN [current_ref |-> current_ref, processed_indices |-> processed_indices]
    ELSE IF j \in processed_indices
         THEN merge_duplicates(references, j + 1, current_ref, processed_indices)
    ELSE IF are_duplicates(current_ref, references[j])
         THEN merge_duplicates(references, j + 1,
                               merge_with(current_ref, references[j]),
                               processed_indices \cup {j})
    ELSE merge_duplicates(references, j + 1, current_ref, processed_indices)

\* The outer loop of dedupe_rank from index i on: merged_refs.
RECURSIVE group_duplicates(_, _, _, _)
group_duplicates(references, i, processed_indices, merged_refs) ==
    IF i > Len(references) THEN merged_refs
    ELSE IF i \in processed_indices
         THEN group_duplicates(references, i + 1, processed_indices, merged_refs)
    ELSE LET r == merge_duplicates(references, i + 1, references[i],
                                   processed_indices \cup {i})
         IN  group_duplicates(references, i + 1, r.processed_indices,
                              Append(merged_refs, r.current_ref))

\* The record ref as it reads after a shallow copy of it was merged into:
\* the copy's list of sources is the list of ref, extended in place.
after_model_copy_shallow(ref, current_ref) ==
    [ref EXCEPT !.sources = current_ref.sources]

\* The record ref as it reads after current_ref, made from it by
\* model_copy(deep=True), was merged into: the copy shares no object with ref.
after_model_copy_deep(ref, current_ref) == ref

\* The list passed to dedupe_rank as it reads after the call, from index i on:
\* merge_with assigns to the accumulator alone and reads the other record.
RECURSIVE references_after(_, _, _)
references_after(references, i, processed_indices) ==
    IF i > Len(references) THEN references
    ELSE IF i \in processed_indices
         THEN references_after(references, i + 1, processed_indices)
    ELSE LET r == merge_duplicates(references, i + 1, references[i],
                                   processed_indices \cup {i})
         IN  references_after(
                 [references EXCEPT ![i] = after_model_copy_deep(@, r.current_ref)],
                 i + 1, r.processed_indices)

\* ref.year or 0
YearOrZero(year) == IF TruthyInt(year) THEN year ELSE 0

\* score1 > score2 for two fractions
ScoreGreater(score1, score2) == score1[1] * score2[2] > score2[1] * score1[2]

\* sort_key(a) < sort_key(b): (-score, -(year or 0), title.lower())
sort_key_less(a, b) ==
    IF a.score # b.score THEN ScoreGreater(a.score, b.score)
    ELSE IF YearOrZero(a.year) # YearOrZero(b.year)
         THEN YearOrZero(a.year) > YearOrZero(b.year)
    ELSE StrLess(Lower(a.title), Lower(b.title))

\* x put into the sorted list xs after the records whose key is not greater.
RECURSIVE insert_sorted(_, _)
insert_sorted(xs, x) ==
    IF xs = <<>> THEN <<x>>
    ELSE IF sort_key_less(x, Head(xs)) THEN <<x>> \o xs
    ELSE <<Head(xs)>> \o insert_sorted(Tail(xs), x)

\* merged_refs.sort(key=sort_key): a stable sort
RECURSIVE sort_refs(_, _)
sort_refs(xs, sorted) ==
    IF xs = <<>> THEN sorted
    ELSE sort_refs(Tail(xs), insert_sorted(sorted, Head(xs)))

\* xs[:n] taken as the whole of xs
Slice_keep_all(xs, n) == xs

\* xs[:n]
Slice(xs, n) ==
    LET stop == IF n >= 0 THEN (IF n < Len(xs) THEN n ELSE Len(xs))
                ELSE (IF Len(xs) + n > 0 THEN Len(xs) + n ELSE 0)
    IN  SubSeq(xs, 1, stop)

\* dedupe_rank
dedupe_rank(references, max_results) ==
    IF references = <<>> THEN <<>>
    ELSE Slice(sort_refs(group_duplicates(references, 1, {}, <<>>), <<>>), max_results)

\* The lists passed to dedupe_rank: at most MaxRefs references.
MaxRefs == 3
DedupePool == RefPool \cup {RefG, RefO}
RefLists == UNION {[1..n -> DedupePool] : n \in 0..MaxRefs}

InitDedupe ==
    /\ CacheInit /\ FanoutIdle /\ PairIdle /\ ProviderIdle /\ ServerIdle
    /\ dpc = "input"
    /\ refs_in \in RefLists
    /\ m1 \in 0..MaxRefs
    /\ m2 \in m1..MaxRefs
    /\ out1 = <<>>
    /\ out2 = <<>>

\* dedupe_rank(references, m1)
DedupeOnce ==
    /\ dpc = "input"
    /\ out1' = dedupe_rank(refs_in, m1)
    /\ refs_in' = references_after(refs_in, 1, {})
    /\ dpc' = "once"
    /\ UNCHANGED <<m1, m2, out2, cacheVars, fanoutVars, otherVars>>

\* dedupe_rank applied to its own output, with m2 >= m1
DedupeTwice ==
    /\ dpc = "once"
    /\ out2' = dedupe_rank(out1, m2)
    /\ out1' = references_after(out1, 1, {})
    /\ dpc' = "twice"
    /\ UNCHANGED <<refs_in, m1, m2, cacheVars, fanoutVars, otherVars>>

NextDedupe ==
    \/ DedupeOnce
    \/ DedupeTwice

SpecDedupe == InitDedupe /\ [][NextDedupe]_vars

---------------------------------------------------------------------------
(* _are_duplicates and Reference.merge_with applied to a pair of references *)

InitPair ==
    /\ CacheInit /\ FanoutIdle /\ DedupeIdle /\ ProviderIdle /\ ServerIdle
    /\ ppc = "input"
    /\ pair1 \in PairPool
    /\ pair2 \in PairPool
    /\ dup = FALSE
    /\ merged = <<>>

\* _are_duplicates(ref1, ref2)
PairCompare ==
    /\ ppc = "input"
    /\ dup' = are_duplicates(pair1, pair2)
    /\ ppc' = "compared"
    /\ UNCHANGED <<pair1, pair2, merged, cacheVars, fanoutVars, dedupeVars,
                   providerVars, serverVars>>

\* ref1.merge_with(ref2)
PairMerge ==
    /\ ppc = "compared"
    /\ merged' = merge_with(pair1, pair2)
    /\ ppc' = "merged"
    /\ UNCHANGED <<pair1, pair2, dup, cacheVars, fanoutVars, dedupeVars,
                   providerVars, serverVars>>

NextPair ==
    \/ PairCompare
    \/ PairMerge

SpecPair == InitPair /\ [][NextPair]_vars

---------------------------------------------------------------------------
(* AbstractProvider.cached_search (providers/base.py) *)

\* timedelta(minutes=15)
ProviderTTL == 15

\* The entries _cache may hold before the oldest is removed.
ProviderCacheCap == 100

\* The time a provider behaviour may reach, the steps of its clock, and the
\* calls that may wait for search at once.
MaxPTime == 15
ProviderTickSteps == {5}
MaxPending == 2

\* str(None)
NoneText == <<"N", "o", "n", "e">>

Digits == <<"0", "1", "2", "3", "4", "5", "6", "7", "8", "9">>

\* str(n) for n >= 0
RECURSIVE IntText(_)
IntText(n) ==
    IF n < 10 THEN <<Digits[n + 1]>>
    ELSE IntText(n \div 10) \o <<Digits[(n % 10) + 1]>>

\* f"{year}" for an optional number, f"{author}" for an optional text
FormatInt(n) == IF n = NoneInt THEN NoneText ELSE IntText(n)
FormatText(t) == IF t = None THEN NoneText ELSE t

\* AbstractProvider._cache_key: f"{self.NAME}:{query}:{limit}:{year}:{author}"
cache_key(name, query, limit, year, author) ==
    name \o <<":">> \o query \o <<":">> \o IntText(limit) \o <<":">>
         \o FormatInt(year) \o <<":">> \o FormatText(author)

\* NAME of the provider instance.
ProviderName == <<"d", "b", "l", "p">>

\* The arguments of the calls: a query with and without an author filter (an
\* author whose name is "None"), and with another limit.
SearchArgs ==
    {[query |-> <<"q">>, limit |-> 5, year |-> NoneInt, author |-> None],
     [query |-> <<"q">>, limit |-> 5, year |-> NoneInt, author |-> NoneText],
     [query |-> <<"q">>, limit |-> 2, year |-> NoneInt, author |-> None]}

KeyOf(args) == cache_key(ProviderName, args.query, args.limit, args.year, args.author)

\* The lists search may return.
ProviderResults == {<<RefA>>, <<RefE>>}

\* The expiry map left as it is where an entry is deleted.
delete_expiry_skipped(expiry, key) == expiry

\* del self._cache_expiry[key]
delete_expiry(expiry, key) == Without(expiry, key)

\* cached_search on the provider instance self, up to "await self.search(...)":
\* a stored list that has not
\* expired is returned; otherwise an expired entry is deleted and the call
\* waits for search, with the time it read at its start.
cached_search_begin_on(self, args) ==
    LET key == KeyOf(args)
        recent == /\ args \in DOMAIN stored_by
                  /\ pnow - stored_by[args] < ProviderTTL
    IN  /\ IF key \in DOMAIN self.cache /\ self.cache_expiry[key] > pnow
           THEN /\ pret' = ProviderOutcome("return", args, pnow, recent, FALSE,
                                           self.cache[key])
                /\ pcache' = self.cache
                /\ pcache_expiry' = self.cache_expiry
                /\ pcache_order' = self.order
                /\ UNCHANGED pending
           ELSE /\ pcache' = Without(self.cache, key)
                /\ pcache_expiry' = delete_expiry(self.cache_expiry, key)
                /\ pcache_order' = Remove(self.order, key)
                /\ pending' = pending (+) SetToBag({[args |-> args, now |-> pnow,
                                                     recent |-> recent]})
                /\ pret' = NoProviderOutcome
        /\ UNCHANGED <<pnow, stored_by, cacheVars, fanoutVars, dedupeVars, pairVars, serverVars>>

\* cached_search called on the provider instance that the model holds.
cached_search_begin(args) ==
    cached_search_begin_on([cache |-> pcache, cache_expiry |-> pcache_expiry,
                            order |-> pcache_order], args)

CachedSearchBegin ==
    /\ BagCardinality(pending) < MaxPending
    /\ \E args \in SearchArgs : cached_search_begin(args)

\* The key with the latest expiry taken as the oldest one.
oldest_key_latest(order, expiry) ==
    order[CHOOSE i \in 1..Len(order) :
             \A j \in 1..Len(order) :
                 \/ expiry[order[i]] > expiry[order[j]]
                 \/ expiry[order[i]] = expiry[order[j]] /\ i <= j]

\* min(self._cache_expiry.keys(), key=lambda k: self._cache_expiry[k]): the
\* first key, in the order of the dict, among those with the earliest expiry.
oldest_key(order, expiry) ==
    order[CHOOSE i \in 1..Len(order) :
             \A j \in 1..Len(order) :
                 \/ expiry[order[i]] < expiry[order[j]]
                 \/ expiry[order[i]] = expiry[order[j]] /\ i <= j]

\* search returns: the list is stored with the expiry counted from the start
\* of the call, the entry with the earliest expiry is removed when the cache
\* is over its cap, and the list is returned.
cached_search_returns(call, results) ==
    LET key == KeyOf(call.args)
        c1 == With(pcache, key, results)
        e1 == With(pcache_expiry, key, call.now + ProviderTTL)
        start == IF call.args \in DOMAIN stored_by /\ stored_by[call.args] > call.now
                 THEN stored_by[call.args] ELSE call.now
        o1 == IF key \in DOMAIN pcache THEN pcache_order ELSE Append(pcache_order, key)
    IN  /\ IF Cardinality(DOMAIN c1) > ProviderCacheCap
           THEN /\ pcache' = Without(c1, oldest_key(o1, e1))
                /\ pcache_expiry' = delete_expiry(e1, oldest_key(o1, e1))
                /\ pcache_order' = Remove(o1, oldest_key(o1, e1))
           ELSE pcache' = c1 /\ pcache_expiry' = e1 /\ pcache_order' = o1
        /\ pending' = pending (-) SetToBag({call})
        /\ stored_by' = With(stored_by, call.args, start)
        /\ pret' = ProviderOutcome("return", call.args, call.now, call.recent, TRUE, results)
        /\ UNCHANGED <<pnow, cacheVars, fanoutVars, dedupeVars, pairVars, serverVars>>

CachedSearchReturns ==
    \E call \in BagToSet(pending), results \in ProviderResults :
        cached_search_returns(call, results)

\* search ends without a list and an empty list is stored for the key.
cached_search_raises_stores_empty(call, kind) ==
    /\ pcache' = With(pcache, KeyOf(call.args), <<>>)
    /\ pcache_expiry' = With(pcache_expiry, KeyOf(call.args), call.now + ProviderTTL)
    /\ pcache_order' = IF KeyOf(call.args) \in DOMAIN pcache THEN pcache_order
                       ELSE Append(pcache_order, KeyOf(call.args))
    /\ pending' = pending (-) SetToBag({call})
    /\ pret' = ProviderOutcome(kind, call.args, call.now, call.recent, TRUE, <<>>)
    /\ UNCHANGED <<pnow, stored_by, cacheVars, fanoutVars, dedupeVars, pairVars, serverVars>>

\* "await self.search(...)" ends without a list, by an error of search or by
\* the cancellation of the call: the error leaves cached_search and nothing is
\* stored.
cached_search_raises(call, kind) ==
    /\ pending' = pending (-) SetToBag({call})
    /\ pret' = ProviderOutcome(kind, call.args, call.now, call.recent, TRUE, <<>>)
    /\ UNCHANGED <<pcache, pcache_expiry, pcache_order, pnow, stored_by,
                   cacheVars, fanoutVars, dedupeVars, pairVars, serverVars>>

\* search raises an error.
CachedSearchRaises ==
    \E call \in BagToSet(pending) : cached_search_raises(call, "raise")

\* The call is cancelled while it waits for search (asyncio.wait_for in
\* fanout, when the timeout of the provider has passed).
CachedSearchCancelled ==
    \E call \in BagToSet(pending) : cached_search_raises(call, "cancelled")

ProviderTick ==
    /\ \E d \in ProviderTickSteps : pnow + d <= MaxPTime /\ pnow' = pnow + d
    /\ pret' = NoProviderOutcome
    /\ UNCHANGED <<pcache, pcache_expiry, pcache_order, pending, stored_by,
                   cacheVars, fanoutVars, dedupeVars, pairVars, serverVars>>

NextProvider ==
    \/ CachedSearchBegin
    \/ CachedSearchReturns
    \/ CachedSearchRaises
    \/ CachedSearchCancelled
    \/ ProviderTick

SpecProvider == Init /\ [][NextProvider]_vars

---------------------------------------------------------------------------
(* cached_search with more distinct queries than the cache may hold *)

\* The queries asked beyond the cap of the cache.
MaxEvictions == 2

\* The cache is filled by calls made one after the other, with one query
\* after the other; from FreeFrom entries on the calls overlap, fail, and time
\* passes between them.
FreeFrom == ProviderCacheCap - 2

QueryArgs(n) == [query |-> IntText(n), limit |-> 5, year |-> NoneInt, author |-> None]

\* The next query: the first one that has neither been answered nor is
\* waiting for search.
NextQuery ==
    CHOOSE n \in 1..(ProviderCacheCap + MaxEvictions + 1) :
        /\ QueryArgs(n) \notin DOMAIN stored_by
        /\ \A call \in BagToSet(pending) : call.args # QueryArgs(n)
        /\ \A m \in 1..(n - 1) :
               \/ QueryArgs(m) \in DOMAIN stored_by
               \/ \E call \in BagToSet(pending) : call.args = QueryArgs(m)

EvictBegin ==
    /\ NextQuery <= ProviderCacheCap + MaxEvictions
    /\ IF Cardinality(DOMAIN pcache) < FreeFrom
       THEN pending = EmptyBag
       ELSE BagCardinality(pending) < MaxPending
    /\ cached_search_begin(QueryArgs(NextQuery))

EvictReturns ==
    \E call \in BagToSet(pending) : cached_search_returns(call, <<RefA>>)

EvictRaises ==
    /\ Cardinality(DOMAIN pcache) >= FreeFrom
    /\ CachedSearchRaises

EvictTick ==
    /\ Cardinality(DOMAIN pcache) >= FreeFrom
    /\ ProviderTick

NextEvict ==
    \/ EvictBegin
    \/ EvictReturns
    \/ EvictRaises
    \/ EvictTick

SpecEvict == Init /\ [][NextEvict]_vars

\* Calls that may fail: every call that search answers gets the same list,
\* so that the behaviours differ in how the calls overlap, fail and expire.
FailureReturns ==
    \E call \in BagToSet(pending) : cached_search_returns(call, <<RefA>>)

NextFailure ==
    \/ CachedSearchBegin
    \/ FailureReturns
    \/ CachedSearchRaises
    \/ CachedSearchCancelled
    \/ ProviderTick

SpecFailure == Init /\ [][NextFailure]_vars

---------------------------------------------------------------------------
(* search_reference called again and again: get_providers and cached_search *)

\* AbstractProvider.__init__: the maps of a new provider instance.
new_provider == [cache |-> <<>>, cache_expiry |-> <<>>, order |-> <<>>]

\* get_providers: the instance of the provider that all_providers holds, made
\* by the call.
get_providers == new_provider

\* search_reference up to "await self.search(...)" of the provider, for calls
\* made one after the other: the instance that get_providers returns is asked
\* by fanout for the list of the arguments.
SearchReferenceBegin ==
    /\ pending = EmptyBag
    /\ \E args \in SearchArgs : cached_search_begin_on(get_providers, args)

NextSearchReference ==
    \/ SearchReferenceBegin
    \/ CachedSearchReturns
    \/ CachedSearchRaises
    \/ CachedSearchCancelled
    \/ ProviderTick

SpecSearchReference == Init /\ [][NextSearchReference]_vars

---------------------------------------------------------------------------
(* The tools search and fetch over the result cache (server.py) *)

\* The queries of the search calls, by number.  The cache key holds the first
\* eight hexadecimal digits of the MD5 of the query, which queries share:
\* query 0 has the digits of query 1.
Queries == {0, 1, 2}
TopKs == {1}

\* hashlib.md5(query.encode()).hexdigest()[:8]
QueryHash(query) == IF query = 0 THEN 1 ELSE query

\* The lists of references search_reference may return.
AggregationResults == Payloads

\* The list search_reference(query=doc_id, max_results=1) may return to fetch.
FetchSearchResults == {<<>>} \cup {<<r>> : r \in CacheRefs}

\* The lightweight results of search: id, title and snippet of each reference.
Hits(refs) ==
    [i \in 1..Len(refs) |->
        [id |-> get_ref_id(refs[i]), title |-> refs[i].title,
         snippet |-> IF Truthy(refs[i].abstract) THEN refs[i].abstract ELSE <<>>]]

\* The full document of fetch: the BibTeX, and the abstract when there is one.
Document(ref) ==
    IF Truthy(ref.abstract)
    THEN ref.bibtex \o <<"\n\nAbstract:\n">> \o ref.abstract
    ELSE ref.bibtex

\* search up to "await search_reference(...)": the cache is asked for the key;
\* a cached list is answered at once, otherwise search_reference is awaited.
\* When the sweep is due, get never returns and neither does search.
search(query, top_k) ==
    /\ tool = "idle"
    /\ get(SearchKey(QueryHash(query), top_k))
    /\ IF pc' = "blocked"
       THEN /\ tool' = "blocked"
            /\ tool_arg' = <<query, top_k>>
            /\ tool_ret' = NoToolOutcome
       ELSE IF ret'.kind = "value"
       THEN /\ tool' = "idle"
            /\ tool_arg' = <<>>
            /\ tool_ret' = ToolOutcome("search", <<query, top_k>>, "value",
                                       Hits(ret'.value), FALSE)
       ELSE /\ tool' = "search_reference"
            /\ tool_arg' = <<query, top_k>>
            /\ tool_ret' = NoToolOutcome
    /\ UNCHANGED origin

\* search_reference returns: search stores the references and answers.
search_resumes(references) ==
    /\ tool = "search_reference"
    /\ LET key == SearchKey(QueryHash(tool_arg[1]), tool_arg[2])
       IN  /\ set(key, references)
           /\ origin' = With(origin, key, tool_arg)
    /\ tool' = "idle"
    /\ tool_arg' = <<>>
    /\ tool_ret' = ToolOutcome("search", tool_arg, "value", Hits(references), TRUE)

\* search_reference raises: search raises, and nothing is stored.
search_reference_raises ==
    /\ tool = "search_reference"
    /\ tool' = "idle"
    /\ tool_arg' = <<>>
    /\ tool_ret' = ToolOutcome("search", tool_arg, "raise", <<>>, TRUE)
    /\ UNCHANGED <<cacheVars, origin>>

\* fetch of one id up to "await search_reference(...)": a reference found by
\* get_by_id is answered with its document; an error of get_by_id is logged
\* and the id is left out; with nothing found search_reference is awaited.
fetch(doc_id) ==
    /\ tool = "idle"
    /\ get_by_id(doc_id)
    /\ IF ret'.kind = "value"
       THEN /\ tool' = "idle"
            /\ tool_arg' = <<>>
            /\ tool_ret' = ToolOutcome("fetch", doc_id, "value", Document(ret'.value[2]), FALSE)
       ELSE IF ret'.kind = "raise"
       THEN /\ tool' = "idle"
            /\ tool_arg' = <<>>
            /\ tool_ret' = ToolOutcome("fetch", doc_id, "none", <<>>, FALSE)
       ELSE /\ tool' = "fetch_reference"
            /\ tool_arg' = doc_id
            /\ tool_ret' = NoToolOutcome
    /\ UNCHANGED origin

\* search_reference returns to fetch: the first reference is answered when its
\* derived identifier is the id asked for; nothing is stored in the cache.
fetch_resumes(references) ==
    /\ tool = "fetch_reference"
    /\ tool' = "idle"
    /\ tool_arg' = <<>>
    /\ tool_ret' = IF references # <<>> /\ get_ref_id(references[1]) = tool_arg
                   THEN ToolOutcome("fetch", tool_arg, "value", Document(references[1]), TRUE)
                   ELSE ToolOutcome("fetch", tool_arg, "none", <<>>, TRUE)
    /\ UNCHANGED <<cacheVars, origin>>

\* search_reference raises in fetch: the error is logged and the id left out.
fetch_search_raises ==
    /\ tool = "fetch_reference"
    /\ tool' = "idle"
    /\ tool_arg' = <<>>
    /\ tool_ret' = ToolOutcome("fetch", tool_arg, "none", <<>>, TRUE)
    /\ UNCHANGED <<cacheVars, origin>>

ServerSearch ==
    /\ \E query \in Queries, top_k \in TopKs : search(query, top_k)
    /\ UNCHANGED <<fanoutVars, dedupeVars, pairVars, providerVars>>

ServerSearchResumes ==
    /\ \E references \in AggregationResults : search_resumes(references)
    /\ UNCHANGED <<fanoutVars, dedupeVars, pairVars, providerVars>>

ServerSearchRaises ==
    /\ search_reference_raises
    /\ UNCHANGED <<fanoutVars, dedupeVars, pairVars, providerVars>>

ServerFetch ==
    /\ \E doc_id \in DocIds : fetch(doc_id)
    /\ UNCHANGED <<fanoutVars, dedupeVars, pairVars, providerVars>>

ServerFetchResumes ==
    /\ \E references \in FetchSearchResults : fetch_resumes(references)
    /\ UNCHANGED <<fanoutVars, dedupeVars, pairVars, providerVars>>

ServerFetchRaises ==
    /\ fetch_search_raises
    /\ UNCHANGED <<fanoutVars, dedupeVars, pairVars, providerVars>>

ServerTick ==
    /\ Tick
    /\ tool_ret' = NoToolOutcome
    /\ UNCHANGED <<tool, tool_arg, origin, fanoutVars, dedupeVars, pairVars, providerVars>>

NextServer ==
    \/ ServerSearch
    \/ ServerSearchResumes
    \/ ServerSearchRaises
    \/ ServerFetch
    \/ ServerFetchResumes
    \/ ServerFetchRaises
    \/ ServerTick

SpecServer == Init /\ [][NextServer]_vars

---------------------------------------------------------------------------
(* The lock of SimpleCache: a cache that grows to 2 * SweepEvery entries. *)

LockKeys == {SearchKey(q, 1) : q \in 1..(2 * SweepEvery)}

\* search stores the result of one more distinct query.
LockSet ==
    /\ \E key \in LockKeys :
          /\ key[2] = Cardinality(DOMAIN cache) + 1
          /\ set(key, <<>>)
    /\ UNCHANGED <<fanoutVars, dedupeVars, otherVars>>

LockGet ==
    /\ get(SearchKey(1, 1))
    /\ UNCHANGED <<fanoutVars, dedupeVars, otherVars>>

LockGetById ==
    /\ get_by_id(get_ref_id(RefC))
    /\ UNCHANGED <<fanoutVars, dedupeVars, otherVars>>

LockClearExpired ==
    /\ clear_expired
    /\ UNCHANGED <<fanoutVars, dedupeVars, otherVars>>

NextLock ==
    \/ LockSet
    \/ LockGet
    \/ LockGetById
    \/ LockClearExpired

SpecLock == Init /\ [][NextLock]_vars

---------------------------------------------------------------------------
(* SimpleCache.set called with any key and any list of records *)

\* The keys of the calls: the keys of search and a key of another kind.
OtherKey == <<"other", 1, 1>>
SetKeys == Keys \cup {OtherKey}

\* The lists of records of the calls: each kind of derived identifier occurs.
SetPayloads == {<<>>, <<RefC, RefD>>, <<RefB, RefL, RefN>>}

AnySet ==
    /\ \E key \in SetKeys, value \in SetPayloads : set(key, value)
    /\ UNCHANGED <<fanoutVars, dedupeVars, otherVars>>

NextSet ==
    \/ AnySet
    \/ CacheTick

SpecSet == Init /\ [][NextSet]_vars

---------------------------------------------------------------------------
(* Claims about the result cache *)

\* C3: every cache key held in a set of the identifier index is a key of the
\* primary map.
C3_IndexKeysInCache ==
    \A id \in DOMAIN id_to_keys : id_to_keys[id] \subseteq DOMAIN cache

\* C4: for every key of the primary map and every record of its payload, the
\* identifier index maps the record's derived identifier to a set holding the key.
C4_PayloadIndexed ==
    \A key \in DOMAIN cache :
        \A i \in 1..Len(cache[key].data) :
            LET ref_id == get_ref_id(cache[key].data[i])
            IN  ref_id \in DOMAIN id_to_keys /\ key \in id_to_keys[ref_id]

\* An expired entry was removed by get while another entry, holding two
\* records, stays in the primary map.
C4_Witness ==
    /\ ret.op = "get" /\ ret.kind = "none" /\ now >= TTL
    /\ ret.arg \notin DOMAIN cache
    /\ \E key \in DOMAIN cache : Len(cache[key].data) = 2

\* C5: every cache call releases the lock it took: between calls the lock is
\* free and no caller waits for it.
C5_LockReleased == lock = "free" /\ pc = "idle"

C7_GetByIdNeverRaises == ~(ret.op = "get_by_id" /\ ret.kind = "raise")

\* The identifiers a record can be asked for by: its DOI, its arXiv ID and the
\* hash of its title.
IdsOf(ref) == ({ref.doi, ref.arxiv_id} \ {None, <<>>}) \cup {TitleHash(ref.title)}

\* C8: for a record held in a non-expired entry, get_by_id returns a record
\* carrying the identifier asked for, whether that is the record's DOI, its
\* arXiv ID or its title hash.
C8_GetByAnyId ==
    [][\A doc_id \in DocIds :
         (/\ get_by_id(doc_id)
          /\ \E key \in DOMAIN cache :
                /\ now < cache[key].expires_at
                /\ \E i \in 1..Len(cache[key].data) : doc_id \in IdsOf(cache[key].data[i]))
         => (ret'.kind = "value" /\ doc_id \in IdsOf(ret'.value[2]))]_vars

\* C27: a get that finds the entry of its key expired removes the key from
\* the primary map and from every set of the identifier index and deletes the
\* sets left empty; the other entries and their index references stay as
\* they were.
C27_ExpiredRemovedOnGet ==
    [][\A key \in Keys :
         (/\ ret'.op = "get" /\ get(key) /\ pc' = "idle"
          /\ key \in DOMAIN cache /\ ~(now < cache[key].expires_at))
         => /\ key \notin DOMAIN cache'
            /\ \A id \in DOMAIN id_to_keys' :
                   key \notin id_to_keys'[id] /\ id_to_keys'[id] # {}
            /\ \A other \in DOMAIN cache \ {key} :
                   other \in DOMAIN cache' /\ cache'[other] = cache[other]
            /\ \A id \in DOMAIN id_to_keys :
                   id_to_keys[id] \ {key} # {} =>
                       /\ id \in DOMAIN id_to_keys'
                       /\ id_to_keys'[id] = id_to_keys[id] \ {key}]_vars

\* C29: after clear_expired the primary map holds no entry whose expiry is
\* at or before the time of the sweep and the identifier index holds no empty
\* set; every entry that has not expired stays as it was, and so do the
\* index references to it, and no reference is added.
C29_SweepRemovesExpired ==
    [][(ret'.op = "clear_expired" /\ clear_expired) =>
         /\ \A key \in DOMAIN cache' : cache'[key].expires_at > now
         /\ \A id \in DOMAIN id_to_keys' :
                /\ id_to_keys'[id] # {}
                /\ id \in DOMAIN id_to_keys /\ id_to_keys'[id] \subseteq id_to_keys[id]
         /\ \A key \in DOMAIN cache :
                cache[key].expires_at > now =>
                    /\ key \in DOMAIN cache' /\ cache'[key] = cache[key]
                    /\ \A id \in DOMAIN id_to_keys :
                           key \in id_to_keys[id] =>
                               id \in DOMAIN id_to_keys' /\ key \in id_to_keys'[id]]_vars

\* A sweep after time had passed has left one entry, of two records, that
\* expires later, with both records indexed, in an index that also holds a
\* reference a replaced payload has left.
C29_Witness ==
    /\ ret.op = "clear_expired" /\ now >= TTL
    /\ \E key \in DOMAIN cache :
          /\ DOMAIN cache = {key}
          /\ cache[key].expires_at > now
          /\ Len(cache[key].data) = 2
          /\ \A i \in 1..2 : key \in id_to_keys[get_ref_id(cache[key].data[i])]
    /\ \E id \in DOMAIN id_to_keys : \E key \in id_to_keys[id] : key \notin DOMAIN cache

\* C31: a key is in the index set of an identifier only if the payload the
\* primary map holds for the key has a record with that derived identifier.
C31_NoStaleReferences ==
    \A id \in DOMAIN id_to_keys :
        \A key \in id_to_keys[id] :
            key \in DOMAIN cache /\ HasMatch(cache[key].data, id)

\* The derived stable identifier of a record: the DOI if present, else the
\* arXiv ID, else the paper ID, else the bibliographic key, else the hash of
\* the title.
DerivedId(ref) ==
    IF Truthy(ref.doi) THEN ref.doi
    ELSE IF Truthy(ref.arxiv_id) THEN ref.arxiv_id
    ELSE IF Truthy(ref.s2_paper_id) THEN ref.s2_paper_id
    ELSE IF Truthy(ref.dblp_key) THEN ref.dblp_key
    ELSE TitleHash(ref.title)

\* What set(key, value) leaves: the entry of the key holds the list and
\* expires TTL after the call, and the index set of the derived identifier of
\* each record of the list holds the key.
StoredAndIndexed(key, value) ==
    /\ key \in DOMAIN cache'
    /\ cache'[key] = [data |-> value, expires_at |-> now + TTL]
    /\ \A i \in 1..Len(value) :
           /\ DerivedId(value[i]) \in DOMAIN id_to_keys'
           /\ key \in id_to_keys'[DerivedId(value[i])]

---------------------------------------------------------------------------
(* Claims about fanout *)

\* What provider p contributes: what its cached_search returned, or nothing
\* when it raised an error or ran into its timeout.
Contribution(p) ==
    IF tasks[p].outcome = "ok" THEN tasks[p].returned ELSE <<>>

RECURSIVE ConcatContributions(_)
ConcatContributions(order) ==
    IF order = <<>> THEN <<>>
    ELSE Contribution(Head(order)) \o ConcatContributions(Tail(order))

\* C1: whatever providers fail or time out, fanout does not raise, and what it
\* returns is the concatenation of the lists of the providers that succeeded;
\* a failed or timed-out provider contributes the empty list.
C1_FailureIsolation ==
    /\ fpc # "raised"
    /\ fpc = "returned" => fresult = ConcatContributions(Providers)
    /\ \A p \in DOMAIN tasks :
          (tasks[p].status = "done" /\ tasks[p].outcome # "ok")
             => tasks[p].result = [kind |-> "return", value |-> <<>>]

\* fanout returned a non-empty list although one provider raised an error and
\* another timed out.
C1_Witness ==
    /\ fpc = "returned" /\ fresult # <<>>
    /\ \E p, q \in DOMAIN tasks :
          tasks[p].outcome = "error" /\ tasks[q].outcome = "timeout"

\* The results of the tasks, in the order `order` of their providers.
RECURSIVE InOrder(_)
InOrder(order) ==
    IF order = <<>> THEN <<>>
    ELSE tasks[Head(order)].result.value \o InOrder(Tail(order))

\* C9: the list fanout returns is the providers' lists in the order the
\* providers were passed, whatever the order in which the calls completed.
C9_ProviderOrder ==
    fpc = "returned" => fresult = InOrder(Providers)

\* fanout returned the lists of two providers whose calls completed in the
\* reverse of the order they were passed in.
C9_Witness ==
    /\ fpc = "returned"
    /\ done_order = <<"arxiv", "semantic_scholar", "dblp">>
    /\ Len(tasks["dblp"].result.value) = 2
    /\ tasks["arxiv"].result.value # <<>>

\* C10: a provider call completes only after every provider call has been
\* started, and fanout returns only when every provider call is done.
C10_AllStartedAllJoined ==
    /\ \A p \in DOMAIN tasks :
          tasks[p].status # "created" => DOMAIN tasks = ProviderSet
    /\ fpc \in {"returned", "raised"} =>
          \A p \in ProviderSet : p \in DOMAIN tasks /\ tasks[p].status = "done"

\* Every provider call was running at the same time, and fanout has returned.
C10_Witness ==
    /\ fpc = "returned"
    /\ \A p \in ProviderSet : tasks[p].status = "done" /\ tasks[p].outcome = "ok"
    /\ \A p \in ProviderSet : tasks[p].deadline = TIMEOUT(p)
    /\ ftime > 0

\* C14: fanout terminates, and it returns no later than the largest TIMEOUT
\* of its providers after it was called, also when every call hangs.
C14_BoundedByMaxTimeout ==
    /\ <>(fpc \in {"returned", "raised", "cancelled"})
    /\ [](fpc = "returned" => ftime <= MaxTimeout)

\* Every provider call hung until its timeout, and fanout returned at the
\* largest of the timeouts.
C14_Witness ==
    /\ fpc = "returned" /\ ftime = MaxTimeout
    /\ \A p \in ProviderSet : tasks[p].outcome = "timeout"

C16_CalledOnce ==
    \A p \in DOMAIN tasks :
        /\ tasks[p].calls <= 1
        /\ tasks[p].status \in {"running", "done"} => tasks[p].calls = 1
        /\ fpc = "returned" => tasks[p].calls = 1

\* fanout returned after one call failed and another timed out, each provider
\* called once.
C16_Witness ==
    /\ fpc = "returned"
    /\ \E p, q \in DOMAIN tasks :
          /\ tasks[p].outcome = "error" /\ tasks[p].calls = 1
          /\ tasks[q].outcome = "timeout" /\ tasks[q].calls = 1

---------------------------------------------------------------------------
(* Claims about the tools search and fetch *)

\* C18: a search for a query and count whose aggregation made an entry that
\* has not expired is answered from the entry without search_reference; any
\* other search removes the entry of its key, if any, and awaits
\* search_reference, and when that returns the entry holds the new list and
\* expires TTL after the store.
C18_EntryLifecycle ==
    [][\A query \in Queries, top_k \in TopKs :
         LET key == SearchKey(QueryHash(query), top_k)
             live == /\ key \in DOMAIN cache /\ now < cache[key].expires_at
                     /\ key \in DOMAIN origin /\ origin[key] = <<query, top_k>>
         IN  /\ (ret'.op = "get" /\ search(query, top_k)) =>
                   IF live
                   THEN /\ tool' = "idle"
                        /\ tool_ret' = ToolOutcome("search", <<query, top_k>>, "value",
                                                   Hits(cache[key].data), FALSE)
                        /\ cache' = cache
                   ELSE /\ tool' = "search_reference"
                        /\ key \notin DOMAIN cache'
             /\ (/\ tool = "search_reference" /\ tool_arg = <<query, top_k>>
                 /\ tool_ret'.kind = "value") =>
                   /\ tool_ret'.searched
                   /\ key \in DOMAIN cache'
                   /\ tool_ret'.value = Hits(cache'[key].data)
                   /\ cache'[key].expires_at = now + TTL]_vars

\* C19: a fetch of an id that search returned from an entry that has not
\* expired answers the document of a cached record with that id, without
\* search_reference, whatever other entries hold the id.
C19_FetchFromCache ==
    [][\A doc_id \in DocIds :
         (/\ ret'.op = "get_by_id" /\ fetch(doc_id)
          /\ \E key \in DOMAIN cache :
                /\ now < cache[key].expires_at
                /\ \E i \in 1..Len(cache[key].data) :
                      get_ref_id(cache[key].data[i]) = doc_id)
         => /\ tool' = "idle"
            /\ tool_ret'.kind = "value"
            /\ ~tool_ret'.searched
            /\ \E key \in DOMAIN cache :
                  /\ now < cache[key].expires_at
                  /\ \E i \in 1..Len(cache[key].data) :
                        /\ get_ref_id(cache[key].data[i]) = doc_id
                        /\ tool_ret'.value = Document(cache[key].data[i])]_vars

---------------------------------------------------------------------------
(* Claims about the cache of a provider *)

\* C17: a call whose arguments equal those of an earlier call that stored a
\* list and began less than 15 minutes before returns that list without
\* calling search; any other call that returns has called search and has
\* replaced the entry, so calls with different arguments share no entry.
C17_CachedPerArguments ==
    [][pret'.kind = "return" =>
         IF pret'.recent
         THEN /\ ~pret'.invoked
              /\ KeyOf(pret'.args) \in DOMAIN pcache
              /\ pret'.results = pcache[KeyOf(pret'.args)]
         ELSE /\ pret'.invoked
              /\ pcache'[KeyOf(pret'.args)] = pret'.results
              /\ pcache_expiry'[KeyOf(pret'.args)] = pret'.start + ProviderTTL]_vars

\* C39: between calls and while calls wait for search, the result map and the
\* expiry map of a provider have the same keys.
C39_SameKeys == DOMAIN pcache = DOMAIN pcache_expiry

\* The cache is at its cap after an entry was evicted, and a call waits for
\* search.
C39_Witness ==
    /\ Cardinality(DOMAIN pcache) = ProviderCacheCap
    /\ \E args \in DOMAIN stored_by : KeyOf(args) \notin DOMAIN pcache
    /\ BagCardinality(pending) = 1

\* C38: a search_reference call made less than 15 minutes after a call with
\* the same arguments whose search gave the provider a list is answered by the
\* provider without calling search.
C38_SecondCallFromCache ==
    [][(pret'.kind = "return" /\ pret'.recent) => ~pret'.invoked]_vars

\* A call of cached_search that ended without a list.
Failed(outcome) == outcome.kind \in {"raise", "cancelled"}

\* The cache holds a list for the key that has not expired.
FreshEntry(key) == key \in DOMAIN pcache /\ pcache_expiry[key] > pnow

---------------------------------------------------------------------------
(* Claims about dedupe_rank *)

\* C2: dedupe_rank applied to its own output with an equal or larger
\* max_results gives the same list again.
C2_Idempotent == dpc = "twice" => out2 = out1

\* The order of the ranking between a record and the one after it: the higher
\* score first; with equal scores the later year first, a record without a
\* year after every record with one; with equal years the titles in lower
\* case ascending.
RankedInOrder(first, second) ==
    IF first.score # second.score THEN ScoreGreater(first.score, second.score)
    ELSE IF first.year # second.year
         THEN \/ second.year = NoneInt
              \/ first.year # NoneInt /\ first.year > second.year
    ELSE ~StrLess(Lower(second.title), Lower(first.title))

\* C13: the list dedupe_rank returns is ordered by score descending, then by
\* year descending with a missing year below every present year, then by
\* lower-cased title ascending.
C13_RankOrder ==
    dpc # "input" =>
        \A i \in 1..(Len(out1) - 1) : RankedInOrder(out1[i], out1[i + 1])

\* C20: for max_results >= 0 dedupe_rank returns at most max_results records,
\* and they are the first max_results records of the full ranked list (all of
\* them when there are fewer).
C20_FirstMaxResults ==
    dpc # "input" =>
        LET full == dedupe_rank(refs_in, Len(refs_in))
            n == IF m1 < Len(full) THEN m1 ELSE Len(full)
        IN  /\ Len(out1) <= m1
            /\ out1 = [i \in 1..n |-> full[i]]

\* dedupe_rank cut a ranked list of three records down to one.
C20_Witness ==
    /\ dpc = "once" /\ m1 = 1 /\ Len(out1) = 1
    /\ Len(dedupe_rank(refs_in, Len(refs_in))) = 3

\* The ways to give each of n records the index of its accumulator: itself,
\* or an accumulator with a smaller index.
Blocks(n) ==
    {f \in [1..n -> 1..n] : \A j \in 1..n : f[j] <= j /\ f[f[j]] = f[j]}

\* The accumulator i as merged so far when record j is scanned.
RECURSIVE Accumulated(_, _, _, _)
Accumulated(refs, f, i, j) ==
    IF j <= i + 1 THEN refs[i]
    ELSE LET acc == Accumulated(refs, f, i, j - 1)
         IN  IF f[j - 1] = i THEN merge_with(acc, refs[j - 1]) ELSE acc

\* The accumulators after the scan, from record i on.
RECURSIVE Accumulators(_, _, _)
Accumulators(refs, f, i) ==
    IF i > Len(refs) THEN <<>>
    ELSE (IF f[i] = i THEN <<Accumulated(refs, f, i, Len(refs) + 1)>> ELSE <<>>)
         \o Accumulators(refs, f, i + 1)

\* The ProviderMeta entries of the records of a list, one after the other.
RECURSIVE AllSources(_)
AllSources(refs) ==
    IF refs = <<>> THEN <<>> ELSE Head(refs).sources \o AllSources(Tail(refs))

\* The elements of a list with the number of times each occurs.
BagOfSeq(xs) ==
    [x \in {xs[i] : i \in DOMAIN xs} |-> Cardinality({i \in DOMAIN xs : xs[i] = x})]

\* f gives the accumulators of one scan from left to right: a record not yet
\* merged when an accumulator scans it is merged into it exactly when
\* are_duplicates holds of the accumulator as merged so far and the record.
IsScan(refs, f) ==
    \A i, j \in 1..Len(refs) :
        (f[i] = i /\ i < j /\ f[j] >= i) =>
            (f[j] = i <=> are_duplicates(Accumulated(refs, f, i, j), refs[j]))

\* C23: dedupe_rank without truncation returns the accumulators of one scan
\* from left to right: every record is an accumulator or is merged into one
\* accumulator with a smaller index; a record not yet merged when an
\* accumulator scans it is merged into it exactly when are_duplicates holds
\* of the accumulator as merged so far and the record.  The sources of the
\* result hold every ProviderMeta of the input once, and the records of the
\* result and the merges together are as many as the records of the input.
C23_OneScanPartition ==
    (dpc = "once" /\ m1 >= Len(refs_in)) =>
        \E f \in Blocks(Len(refs_in)) :
            /\ IsScan(refs_in, f)
            /\ BagOfSeq(out1) = BagOfSeq(Accumulators(refs_in, f, 1))
            /\ BagOfSeq(AllSources(out1)) = BagOfSeq(AllSources(refs_in))
            /\ Len(out1) + Cardinality({j \in 1..Len(refs_in) : f[j] # j})
                  = Len(refs_in)

\* dedupe_rank returned one record for three: the third record is no
\* duplicate of the first as it was given, and was merged into it after the
\* second was.
C23_Witness ==
    /\ dpc = "once" /\ m1 >= Len(refs_in)
    /\ Len(refs_in) = 3 /\ Len(out1) = 1
    /\ are_duplicates(refs_in[1], refs_in[2])
    /\ ~are_duplicates(refs_in[1], refs_in[3])
    /\ Len(out1[1].sources) = 3

\* C32: the records dedupe_rank folds into one merged record have, as far as
\* they carry a DOI, the same normalized DOI.
C32_NoConflictingDois ==
    (dpc = "once" /\ m1 >= Len(refs_in)) =>
        \A f \in Blocks(Len(refs_in)) :
            (/\ IsScan(refs_in, f)
             /\ BagOfSeq(out1) = BagOfSeq(Accumulators(refs_in, f, 1)))
            => \A i, j \in 1..Len(refs_in) :
                  (/\ f[i] = f[j]
                   /\ Truthy(refs_in[i].doi) /\ Truthy(refs_in[j].doi))
                  => normalize_doi(refs_in[i].doi) = normalize_doi(refs_in[j].doi)


\* The groups of the scan f of the list refs, each as the set of the places
\* that its records have in the list where(k) for every place k of refs.
Groups(refs, f, where) ==
    {{where[k] : k \in {k \in 1..Len(refs) : f[k] = r}} :
        r \in {f[k] : k \in 1..Len(refs)}}

\* The list refs in the order p.
Permuted(refs, p) == [k \in 1..Len(refs) |-> refs[p[k]]]

\* The groups of the scans of the list refs and of the same list in every
\* other order are the same sets of records.
SameGroupsInEveryOrder(refs, out, max_results) ==
    \A f \in Blocks(Len(refs)) :
        (/\ IsScan(refs, f)
         /\ BagOfSeq(out) = BagOfSeq(Accumulators(refs, f, 1)))
        => \A p \in Orders(1..Len(refs)) :
              \A g \in Blocks(Len(refs)) :
                  (/\ IsScan(Permuted(refs, p), g)
                   /\ BagOfSeq(dedupe_rank(Permuted(refs, p), max_results))
                          = BagOfSeq(Accumulators(Permuted(refs, p), g, 1)))
                  => Groups(refs, f, [k \in 1..Len(refs) |-> k])
                         = Groups(refs, g, p)

Transitive(refs) ==
    \A i, j, k \in 1..Len(refs) :
        (are_duplicates(refs[i], refs[j]) /\ are_duplicates(refs[j], refs[k]))
            => are_duplicates(refs[i], refs[k])

FrameFields(ref) ==
    <<ref.title, ref.year, ref.venue, ref.volume, ref.issue, ref.pages,
      ref.publisher, ref.bibtex>>

\* C36: merge_with leaves the title, year, venue, volume, issue, pages,
\* publisher and bibtex of the record merged into as they were and leaves the
\* other record as it was; every record dedupe_rank returns has these fields
\* of the earliest record of its group.
C36_MergeFrame ==
    [][(dpc = "input" /\ dpc' = "once" /\ m1 >= Len(refs_in)) =>
         /\ refs_in' = refs_in
         /\ \A i, j \in 1..Len(refs_in) :
                FrameFields(merge_with(refs_in[i], refs_in[j]))
                    = FrameFields(refs_in[i])
         /\ \A f \in Blocks(Len(refs_in)) :
                (/\ IsScan(refs_in, f)
                 /\ BagOfSeq(out1') = BagOfSeq(Accumulators(refs_in, f, 1)))
                => \A k \in 1..Len(out1') :
                      \E i \in 1..Len(refs_in) :
                          /\ f[i] = i
                          /\ \A j \in 1..Len(refs_in) : f[j] = i => i <= j
                          /\ out1'[k] = Accumulated(refs_in, f, i, Len(refs_in) + 1)
                          /\ FrameFields(out1'[k]) = FrameFields(refs_in[i])]_vars

\* dedupe_rank has merged a record with a venue, a volume and another bibtex
\* into an earlier record without them.
C36_Witness ==
    /\ dpc = "once" /\ m1 >= Len(refs_in)
    /\ Len(refs_in) = 2 /\ Len(out1) = 1
    /\ Truthy(refs_in[2].venue) /\ ~Truthy(refs_in[1].venue)
    /\ refs_in[2].bibtex # refs_in[1].bibtex
    /\ FrameFields(out1[1]) = FrameFields(refs_in[1])

---------------------------------------------------------------------------
(* Claims about _are_duplicates and Reference.merge_with *)

\* The normal form of a DOI as the rule of the specification words it: lower
\* case, with one leading https://doi.org/, http://doi.org/ or doi: removed.
DoiNormalForm(doi) ==
    LET d == Lower(doi)
    IN  IF StartsWith(d, HttpsPrefix) THEN DropFirst(d, Len(HttpsPrefix))
        ELSE IF StartsWith(d, HttpPrefix) THEN DropFirst(d, Len(HttpPrefix))
        ELSE IF StartsWith(d, DoiPrefix) THEN DropFirst(d, Len(DoiPrefix))
        ELSE d

\* C11: two references that both have a DOI, with equal normal forms of the
\* DOIs, are duplicates, whatever their titles, authors and years are.
C11_EqualDoiIsDuplicate ==
    (/\ ppc = "compared"
     /\ Truthy(pair1.doi) /\ Truthy(pair2.doi)
     /\ DoiNormalForm(pair1.doi) = DoiNormalForm(pair2.doi))
    => dup

\* The mean of the relevance scores of the sources, 0 when there is none.
MeanRelevance(sources) ==
    LET scores == provider_scores(sources)
    IN  IF scores = <<>> THEN ZeroScore ELSE Fraction(Sum(scores), Len(scores))

\* C12: after pair2 was merged into pair1, pair1's score is the mean of the
\* relevance scores of all its sources, and 0 when no source has one,
\* whatever pair1's score was before.
C12_ScoreIsMean ==
    ppc = "merged" =>
        /\ merged.sources = pair1.sources \o pair2.sources
        /\ merged.score = MeanRelevance(merged.sources)

\* One of the identifier rules of _are_duplicates makes the two references
\* duplicates.
ByIdentifier(a, b) ==
    \/ Truthy(a.doi) /\ Truthy(b.doi) /\ normalize_doi(a.doi) = normalize_doi(b.doi)
    \/ /\ Truthy(a.arxiv_id) /\ Truthy(b.arxiv_id)
       /\ normalize_arxiv_id(a.arxiv_id) = normalize_arxiv_id(b.arxiv_id)
    \/ Truthy(a.s2_paper_id) /\ Truthy(b.s2_paper_id) /\ a.s2_paper_id = b.s2_paper_id

\* The rule on titles, years and first authors: the titles are similar to 94
\* or more, the years do not differ when both references have one, and the
\* last names are similar to 80 or more when both are there, or else the
\* titles are similar to 98 or more.
FuzzyRule(a, b) ==
    LET last1 == extract_first_author_lastname(a.authors)
        last2 == extract_first_author_lastname(b.authors)
    IN  /\ TokenSetRatioAtLeast(Lower(a.title), Lower(b.title), 94)
        /\ ~(a.year # NoneInt /\ b.year # NoneInt /\ a.year # b.year)
        /\ \/ last1 # <<>> /\ last2 # <<>> /\ RatioAtLeast(last1, last2, 80)
           \/ /\ last1 = <<>> \/ last2 = <<>>
              /\ TokenSetRatioAtLeast(Lower(a.title), Lower(b.title), 98)

\* C21: two references that no identifier rule makes duplicates are
\* duplicates exactly when the rule on titles, years and first authors holds.
C21_FuzzyFallback ==
    (ppc = "compared" /\ ~ByIdentifier(pair1, pair2))
    => (dup <=> FuzzyRule(pair1, pair2))

IsDigit(c) == \E k \in 1..Len(Digits) : Digits[k] = c

\* An arXiv ID without its trailing version suffix: a "v" followed by digits
\* up to the end is removed with the digits, anything else is left as it is.
WithoutVersion(arxiv_id) ==
    IF \E i \in 1..(Len(arxiv_id) - 1) :
          /\ arxiv_id[i] = "v"
          /\ \A j \in (i + 1)..Len(arxiv_id) : IsDigit(arxiv_id[j])
    THEN LET i == CHOOSE k \in 1..(Len(arxiv_id) - 1) :
                     /\ arxiv_id[k] = "v"
                     /\ \A j \in (k + 1)..Len(arxiv_id) : IsDigit(arxiv_id[j])
         IN  SubSeq(arxiv_id, 1, i - 1)
    ELSE arxiv_id

\* C22: the normal form of an arXiv ID is the ID without its trailing version
\* suffix, and two references that both have an arXiv ID, and that no other
\* rule makes duplicates, are duplicates exactly when their IDs without the
\* version suffix are equal.
C22_ArxivVersionOnly ==
    (ppc = "compared" /\ Truthy(pair1.arxiv_id) /\ Truthy(pair2.arxiv_id))
    => /\ normalize_arxiv_id(pair1.arxiv_id) = WithoutVersion(pair1.arxiv_id)
       /\ normalize_arxiv_id(pair2.arxiv_id) = WithoutVersion(pair2.arxiv_id)
       /\ WithoutVersion(pair1.arxiv_id) = WithoutVersion(pair2.arxiv_id) => dup
       /\ (/\ WithoutVersion(pair1.arxiv_id) # WithoutVersion(pair2.arxiv_id)
           /\ ~(/\ Truthy(pair1.doi) /\ Truthy(pair2.doi)
                /\ normalize_doi(pair1.doi) = normalize_doi(pair2.doi))
           /\ ~(/\ Truthy(pair1.s2_paper_id) /\ Truthy(pair2.s2_paper_id)
                /\ pair1.s2_paper_id = pair2.s2_paper_id)
           /\ ~FuzzyRule(pair1, pair2))
          => ~dup

\* The identifier fields of a reference.
IdentifierFields == {"doi", "arxiv_id", "s2_paper_id", "dblp_key"}

\* C34: _are_duplicates gives the same answer for a pair of records and for
\* the pair the other way round.
C34_Symmetric ==
    ppc # "input" => dup = are_duplicates(pair2, pair1)

\* Two different records found duplicates by the title rule alone: one has no
\* authors, no year and no identifier.
C34_Witness ==
    /\ ppc = "compared" /\ dup
    /\ pair1 # pair2
    /\ pair1.authors = <<>> /\ pair2.authors # <<>>
    /\ ~Truthy(pair1.doi) /\ ~Truthy(pair1.arxiv_id) /\ ~Truthy(pair1.s2_paper_id)

\* C24: after pair2 was merged into pair1, each identifier field holds
\* pair1's value if pair1 had one and else pair2's value if pair2 had one, as
\* it was given; an identifier pair1 had is neither replaced nor cleared.
C24_IdentifiersKept ==
    ppc = "merged" =>
        \A field \in IdentifierFields :
            /\ merged[field] \in {pair1[field], pair2[field]}
            /\ Truthy(pair1[field]) => merged[field] = pair1[field]
            /\ (~Truthy(pair1[field]) /\ Truthy(pair2[field]))
                  => merged[field] = pair2[field]
            /\ (~Truthy(pair1[field]) /\ ~Truthy(pair2[field]))
                  => ~Truthy(merged[field])

\* A merge that kept pair1's DOI although pair2 has another one, and took
\* pair2's arXiv ID with its version suffix and pair2's paper ID and key.
C24_Witness ==
    /\ ppc = "merged"
    /\ Truthy(pair1.doi) /\ Truthy(pair2.doi) /\ pair1.doi # pair2.doi
    /\ merged.doi = pair1.doi
    /\ ~Truthy(pair1.arxiv_id) /\ Truthy(pair2.arxiv_id)
    /\ merged.arxiv_id = pair2.arxiv_id
    /\ normalize_arxiv_id(merged.arxiv_id) # merged.arxiv_id
    /\ merged.s2_paper_id = pair2.s2_paper_id /\ Truthy(merged.s2_paper_id)
    /\ merged.dblp_key = pair2.dblp_key /\ Truthy(merged.dblp_key)

\* C25: after pair2 was merged into pair1, pair1's sources are its sources
\* before followed by pair2's entries in their order, none removed, moved or
\* left out for having the source name of another; the length is the sum.
C25_SourcesAppended ==
    ppc = "merged" =>
        /\ Len(merged.sources) = Len(pair1.sources) + Len(pair2.sources)
        /\ SubSeq(merged.sources, 1, Len(pair1.sources)) = pair1.sources
        /\ \A i \in 1..Len(pair2.sources) :
               merged.sources[Len(pair1.sources) + i] = pair2.sources[i]

\* A merge of a record of two sources into a record of the first of these
\* sources: the three entries stay, in their order.
C25_Witness ==
    /\ ppc = "merged"
    /\ Len(pair1.sources) = 1 /\ Len(pair2.sources) = 2
    /\ pair1.sources[1].name = pair2.sources[1].name
    /\ pair2.sources[1].name # pair2.sources[2].name
    /\ merged.sources = <<pair1.sources[1], pair2.sources[1], pair2.sources[2]>>

\* C26: after pair2 was merged into pair1, pair1's citation count is the
\* larger of the two counts when both records have one, the count of the
\* record that has one when only one has, a count of 0 included, and None
\* when neither has one.
C26_LargerCitationCount ==
    ppc = "merged" =>
        LET mine == pair1.citation_count
            theirs == pair2.citation_count
        IN  merged.citation_count =
                IF mine # NoneInt /\ theirs # NoneInt
                THEN (IF theirs > mine THEN theirs ELSE mine)
                ELSE IF mine # NoneInt THEN mine
                ELSE theirs

===========================================================================
